---- MODULE Spec2Model ----
(***************************************************************************)
(* The Tiger digest engine of src/tiger/src/lib.rs: the three-word state,  *)
(* the 64-byte block compression, the block buffer and the padding done    *)
(* on finalize.                                                            *)
(*                                                                         *)
(* A u64 is written as the sequence of its 8 bytes, least significant      *)
(* first (TLC's integers are 32 bits wide); the arithmetic below is the    *)
(* wrapping arithmetic of core::num::Wrapping<u64> on that representation. *)
(***************************************************************************)
EXTENDS Integers, Sequences, FiniteSets, TLC

\* ------------------------------------------------------------------ u64

Byte == 0..255

\* x ^ y on 4-bit values, bit by bit.
XorNibble ==
  [x \in 0..15 |-> [y \in 0..15 |->
      ((x + y) % 2)
    + 2 * (((x \div 2) + (y \div 2)) % 2)
    + 4 * (((x \div 4) + (y \div 4)) % 2)
    + 8 * (((x \div 8) + (y \div 8)) % 2)]]

XorByte(x, y) ==
  16 * XorNibble[x \div 16][y \div 16] + XorNibble[x % 16][y % 16]

\* Wrapping<u64> ^ Wrapping<u64>
XorW(x, y) ==
  <<XorByte(x[1], y[1]), XorByte(x[2], y[2]), XorByte(x[3], y[3]),
    XorByte(x[4], y[4]), XorByte(x[5], y[5]), XorByte(x[6], y[6]),
    XorByte(x[7], y[7]), XorByte(x[8], y[8])>>

\* !x
NotW(x) ==
  <<255 - x[1], 255 - x[2], 255 - x[3], 255 - x[4],
    255 - x[5], 255 - x[6], 255 - x[7], 255 - x[8]>>

\* Wrapping add, byte by byte from the least significant, with the carry.
RECURSIVE AddFrom(_, _, _, _)
AddFrom(x, y, i, carry) ==
  IF i > 8 THEN <<>>
  ELSE <<(x[i] + y[i] + carry) % 256>>
       \o AddFrom(x, y, i + 1, (x[i] + y[i] + carry) \div 256)

AddW(x, y) == AddFrom(x, y, 1, 0)

\* Wrapping sub: x - y = x + !y + 1 (mod 2^64).
SubW(x, y) == AddFrom(x, NotW(y), 1, 1)

\* Wrapping mul by a small constant m.
RECURSIVE MulFrom(_, _, _, _)
MulFrom(x, m, i, carry) ==
  IF i > 8 THEN <<>>
  ELSE <<(x[i] * m + carry) % 256>>
       \o MulFrom(x, m, i + 1, (x[i] * m + carry) \div 256)

MulW(x, m) == MulFrom(x, m, 1, 0)

Pow2(n) == IF n = 0 THEN 1 ELSE IF n = 1 THEN 2 ELSE IF n = 2 THEN 4
           ELSE IF n = 3 THEN 8 ELSE IF n = 4 THEN 16 ELSE IF n = 5 THEN 32
           ELSE IF n = 6 THEN 64 ELSE IF n = 7 THEN 128 ELSE 256

\* x << n and x >> n for 0 < n < 64, bits shifted out are lost.
ByteAt(x, i) == IF i >= 1 /\ i <= 8 THEN x[i] ELSE 0

ShlByte(x, q, r, i) ==
  ((ByteAt(x, i - q) * Pow2(r)) % 256) + (ByteAt(x, i - q - 1) \div Pow2(8 - r))

ShlW(x, n) ==
  LET q == n \div 8
      r == n % 8
  IN <<ShlByte(x, q, r, 1), ShlByte(x, q, r, 2), ShlByte(x, q, r, 3),
       ShlByte(x, q, r, 4), ShlByte(x, q, r, 5), ShlByte(x, q, r, 6),
       ShlByte(x, q, r, 7), ShlByte(x, q, r, 8)>>

ShrByte(x, q, r, i) ==
  (ByteAt(x, i + q) \div Pow2(r)) + ((ByteAt(x, i + q + 1) * Pow2(8 - r)) % 256)

ShrW(x, n) ==
  LET q == n \div 8
      r == n % 8
  IN <<ShrByte(x, q, r, 1), ShrByte(x, q, r, 2), ShrByte(x, q, r, 3),
       ShrByte(x, q, r, 4), ShrByte(x, q, r, 5), ShrByte(x, q, r, 6),
       ShrByte(x, q, r, 7), ShrByte(x, q, r, 8)>>

\* x < y as unsigned numbers, compared from byte i down.
RECURSIVE LessFrom(_, _, _)
LessFrom(x, y, i) ==
  IF i = 0 THEN FALSE
  ELSE IF x[i] # y[i] THEN x[i] < y[i]
  ELSE LessFrom(x, y, i - 1)

LessW(x, y) == LessFrom(x, y, 8)

\* The u64 of a natural below 2^31.
RECURSIVE BytesOfNat(_, _)
BytesOfNat(n, k) ==
  IF k = 0 THEN <<>> ELSE <<n % 256>> \o BytesOfNat(n \div 256, k - 1)

U64(n) == BytesOfNat(n, 8)

\* S-box T1: 256 words, each written as its 8 little-endian bytes.
T1 ==
  <<
    <<94,12,233,247,124,177,170,2>>,  \* 02AAB17CF7E90C5E
    <<236,168,67,226,3,75,66,172>>,  \* AC424B03E243A8EC
    <<211,252,213,13,227,91,205,114>>,  \* 72CD5BE30DD5FCD3
    <<58,127,249,246,147,155,1,109>>,  \* 6D019B93F6F97F3A
    <<147,145,31,210,255,120,153,205>>,  \* CD9978FFD21F9193
    <<226,41,128,112,201,161,115,117>>,  \* 7573A1C9708029E2
    <<195,131,42,146,107,50,100,177>>,  \* B164326B922A83C3
    <<112,88,145,4,238,62,136,70>>,  \* 46883EEE04915870
    <<230,236,3,113,5,227,172,234>>,  \* EAACE3057103ECE6
    <<92,83,163,8,184,105,65,197>>,  \* C54169B808A3535C
    <<124,196,222,141,145,84,231,76>>,  \* 4CE754918DDEC47C
    <<12,244,13,220,223,244,162,10>>,  \* 0AA2F4DFDC0DF40C
    <<250,190,77,167,24,111,183,16>>,  \* 10B76F18A74DBEFA
    <<106,171,209,90,35,182,204,198>>,  \* C6CCB6235AD1AB6A
    <<255,226,47,87,33,97,114,19>>,  \* 13726121572FE2FF
    <<30,146,157,25,111,140,72,26>>,  \* 1A488C6F199D921E
    <<202,7,0,218,244,249,201,75>>,  \* 4BC9F9F4DA0007CA
    <<199,65,82,232,246,230,245,38>>,  \* 26F5E6F6E85241C7
    <<182,71,89,234,219,121,144,133>>,  \* 859079DBEA5947B6
    <<146,140,158,201,197,133,24,79>>,  \* 4F1885C5C99E8C92
    <<75,134,111,169,30,118,142,215>>,  \* D78E761EA96F864B
    <<125,193,181,82,140,66,54,142>>,  \* 8E36428C52B5C17D
    <<193,99,48,55,39,104,207,105>>,  \* 69CF6827373063C1
    <<110,197,180,155,61,201,7,182>>,  \* B607C93D9BB4C56E
    <<234,181,118,14,118,14,130,125>>,  \* 7D820E760E76B5EA
    <<66,220,127,240,198,156,92,100>>,  \* 645C9CC6F07FDC42
    <<224,66,51,36,120,160,56,191>>,  \* BF38A078243342E0
    <<4,125,46,157,60,52,107,95>>,  \* 5F6B343C9D2E7D04
    <<198,14,11,96,235,138,194,242>>,  \* F2C28AEB600B0EC6
    <<172,188,84,114,95,216,14,108>>,  \* 6C0ED85F7254BCAC
    <<229,79,219,164,129,34,89,113>>,  \* 71592281A4DB4FE5
    <<159,237,15,206,105,250,103,25>>,  \* 1967FA69CE0FED9F
    <<219,69,101,185,248,147,82,253>>,  \* FD5293F8B96545DB
    <<11,96,167,242,215,233,121,200>>,  \* C879E9D7F2A7600B
    <<78,25,147,1,146,72,2,134>>,  \* 860248920193194E
    <<179,192,156,45,59,83,249,164>>,  \* A4F9533B2D9CC0B3
    <<19,118,149,21,108,131,83,144>>,  \* 9053836C15957613
    <<241,123,53,252,138,207,109,219>>,  \* DB6DCF8AFC357BF1
    <<87,15,55,122,122,234,190,24>>,  \* 18BEEA7A7A370F57
    <<102,144,185,80,202,23,113,3>>,  \* 037117CA50B99066
    <<53,74,66,116,151,10,179,106>>,  \* 6AB30A9774424A35
    <<155,36,37,227,2,47,233,244>>,  \* F4E92F02E325249B
    <<225,202,28,6,7,219,57,119>>,  \* 7739DB07061CCAE1
    <<5,42,164,236,156,180,243,216>>,  \* D8F3B49CECA42A05
    <<115,47,56,81,63,190,86,189>>,  \* BD56BE3F51382F73
    <<40,187,176,67,88,237,250,69>>,  \* 45FAED5843B0BB28
    <<131,31,191,17,92,61,129,28>>,  \* 1C813D5C11BF1F83
    <<105,161,95,215,182,228,240,138>>,  \* 8AF0E4B6D75FA169
    <<153,153,173,135,164,24,238,51>>,  \* 33EE18A487AD9999
    <<16,68,201,177,234,232,38,60>>,  \* 3C26E8EAB1C94410
    <<249,34,168,192,43,16,16,181>>,  \* B510102BC0A822F9
    <<59,18,230,12,49,239,30,20>>,  \* 141EEF310CE6123B
    <<84,177,221,89,0,185,101,252>>,  \* FC65B90059DDB154
    <<7,230,224,197,64,134,21,224>>,  \* E0158640C5E0E607
    <<207,163,195,38,152,7,78,136>>,  \* 884E079826C3A3CF
    <<253,53,197,35,149,13,13,147>>,  \* 930D0D9523C535FD
    <<0,43,154,78,117,141,99,53>>,  \* 35638D754E9A2B00
    <<213,157,70,64,207,252,133,64>>,  \* 4085FCCF40469DD5
    <<76,58,226,139,210,122,177,196>>,  \* C4B17AD28BE23A4C
    <<46,106,62,106,252,240,178,202>>,  \* CAB2F0FC6A3E6A2E
    <<205,63,148,107,26,151,96,40>>,  \* 2860971A6B943FCD
    <<70,4,227,18,226,110,222,61>>,  \* 3DDE6EE212E30446
    <<174,101,23,224,42,243,34,98>>,  \* 6222F32AE01765AE
    <<254,8,131,71,181,11,85,93>>,  \* 5D550BB5478308FE
    <<42,162,237,160,141,169,239,169>>,  \* A9EFA98DA0EDA22A
    <<167,13,196,134,22,167,81,195>>,  \* C351A71686C40DA7
    <<132,124,134,156,109,88,5,17>>,  \* 1105586D9C867C84
    <<83,40,162,253,133,238,255,220>>,  \* DCFFEE85FDA22853
    <<118,239,94,44,38,208,251,204>>,  \* CCFBD0262C5EEF76
    <<1,210,144,137,203,148,242,186>>,  \* BAF294CB8990D201
    <<117,217,250,42,245,100,148,230>>,  \* E69464F52AFAD975
    <<20,62,19,223,175,19,176,148>>,  \* 94B013AFDF133E14
    <<88,201,35,40,163,209,167,6>>,  \* 06A7D1A32823C958
    <<25,17,246,48,81,254,149,111>>,  \* 6F95FE5130F61119
    <<192,6,44,70,78,179,42,217>>,  \* D92AB34E462C06C0
    <<210,113,124,136,51,222,123,237>>,  \* ED7BDE33887C71D2
    <<62,57,24,101,110,109,116,121>>,  \* 79746D6E6518393E
    <<41,51,113,93,56,25,164,91>>,  \* 5BA419385D713329
    <<100,117,169,72,185,166,27,124>>,  \* 7C1BA6B948A97564
    <<103,172,253,123,25,124,152,49>>,  \* 31987C197BFDAC67
    <<2,61,5,75,196,35,108,222>>,  \* DE6C23C44B053D02
    <<77,214,2,208,254,73,28,88>>,  \* 581C49FED002D64D
    <<113,21,38,56,99,77,71,221>>,  \* DD474D6338261571
    <<98,208,115,228,195,70,69,170>>,  \* AA4546C3E473D062
    <<96,248,85,148,52,206,143,146>>,  \* 928FCE349455F860
    <<217,148,171,202,186,27,22,72>>,  \* 48161BBACAAB94D9
    <<104,111,14,119,48,36,145,99>>,  \* 63912430770E6F68
    <<28,100,198,2,230,165,200,110>>,  \* 6EC8A5E602C6641C
    <<43,221,125,51,21,37,40,135>>,  \* 87282515337DDD2B
    <<27,112,75,3,66,107,218,44>>,  \* 2CDA6B42034B701B
    <<109,9,203,129,193,55,61,176>>,  \* B03D37C181CB096D
    <<111,28,199,102,130,67,8,225>>,  \* E108438266C71C6F
    <<85,178,81,235,199,128,49,43>>,  \* 2B3180C7EB51B255
    <<188,139,192,150,47,184,146,223>>,  \* DF92B82F96C08BBC
    <<186,243,50,166,192,200,104,92>>,  \* 5C68C8C0A632F3BA
    <<86,5,61,28,134,204,4,85>>,  \* 5504CC861C3D0556
    <<143,107,178,95,229,164,191,171>>,  \* ABBFA4E55FB26B8F
    <<180,206,186,179,10,139,132,65>>,  \* 41848B0AB3BACEB4
    <<50,93,68,170,115,162,52,179>>,  \* B334A273AA445D32
    <<129,216,90,168,240,150,166,188>>,  \* BCA696F0A85AD881
    <<108,213,40,181,101,236,246,36>>,  \* 24F6EC65B528D56C
    <<74,82,244,144,46,81,225,12>>,  \* 0CE1512E90F4524A
    <<90,211,6,85,157,215,157,78>>,  \* 4E9DD79D5506D35A
    <<121,151,206,198,250,5,137,37>>,  \* 258905FAC6CE9779
    <<51,155,16,62,91,41,25,32>>,  \* 2019295B3E109B33
    <<204,84,160,115,139,71,169,248>>,  \* F8A9478B73A054CC
    <<176,126,65,52,249,242,36,41>>,  \* 2924F2F934417EB0
    <<196,27,109,83,125,53,147,57>>,  \* 3993357D536D1BC4
    <<139,255,182,29,194,26,168,56>>,  \* 38A81AC21DB6FF8B
    <<191,22,96,125,241,251,196,71>>,  \* 47C4FBF17D6016BF
    <<245,227,103,118,221,170,15,30>>,  \* 1E0FAADD7667E3F5
    <<150,235,139,147,98,255,188,122>>,  \* 7ABCFF62938BEB96
    <<201,121,193,143,148,173,141,167>>,  \* A78DAD948FC179C9
    <<13,229,17,41,183,152,31,143>>,  \* 8F1F98B72911E50D
    <<145,26,18,39,174,142,228,97>>,  \* 61E48EAE27121A91
    <<8,152,133,49,173,247,98,77>>,  \* 4D62F7AD31859808
    <<235,234,92,239,69,163,235,236>>,  \* ECEBA345EF5CEAEB
    <<206,132,150,188,94,178,206,245>>,  \* F5CEB25EBC9684CE
    <<33,98,247,183,12,226,51,246>>,  \* F633E20CB7F76221
    <<228,147,130,171,6,223,44,163>>,  \* A32CDF06AB8293E4
    <<164,44,238,165,44,32,90,152>>,  \* 985A202CA5EE2CA4
    <<177,143,138,204,71,132,11,207>>,  \* CF0B8447CC8A8FB1
    <<163,89,152,151,68,82,118,159>>,  \* 9F765244979859A3
    <<23,0,36,161,177,22,213,168>>,  \* A8D516B1A1240017
    <<38,199,93,187,62,186,215,11>>,  \* 0BD7BA3EBB5DC726
    <<57,219,106,184,85,202,75,229>>,  \* E54BCA55B86ADB39
    <<99,128,71,108,253,58,122,29>>,  \* 1D7A3AFD6C478063
    <<221,158,102,231,8,198,158,81>>,  \* 519EC608E7669EDD
    <<35,170,73,209,162,21,87,14>>,  \* 0E5715A2D149AA23
    <<148,241,143,132,113,69,125,23>>,  \* 177D4571848FF194
    <<34,76,1,65,50,95,181,238>>,  \* EEB55F3241014C22
    <<194,46,110,58,161,92,94,15>>,  \* 0F5E5CA13A6E2EC2
    <<97,195,245,117,123,146,41,128>>,  \* 8029927B75F5C361
    <<54,228,214,195,171,159,19,173>>,  \* AD139FABC3D6E436
    <<47,64,207,76,169,241,93,13>>,  \* 0D5DF1A94CCF402F
    <<200,223,165,190,72,217,139,62>>,  \* 3E8BD948BEA5DFC8
    <<126,247,63,189,87,211,160,165>>,  \* A5A0D357BD3FF77E
    <<69,246,116,31,37,46,209,162>>,  \* A2D12E251F74F645
    <<130,160,129,94,82,158,253,102>>,  \* 66FD9E525E81A082
    <<73,122,104,127,206,144,12,46>>,  \* 2E0C90CE7F687A49
    <<197,59,151,186,190,188,232,194>>,  \* C2E8BCBEBA973BC5
    <<95,116,9,229,188,1,0,0>>,  \* 000001BCE509745F
    <<214,179,218,230,187,119,55,66>>,  \* 423777BBE6DAB3D6
    <<181,110,240,174,126,28,102,209>>,  \* D1661C7EAEF06EB5
    <<216,207,170,77,53,31,120,161>>,  \* A1781F354DAACFD8
    <<252,175,22,43,74,40,17,45>>,  \* 2D11284A2B16AFFC
    <<31,29,137,250,103,79,252,241>>,  \* F1FC4F67FA891D1F
    <<218,10,146,203,93,194,236,115>>,  \* 73ECC25DCB920ADA
    <<81,38,161,194,34,12,97,174>>,  \* AE610C22C2A12651
    <<138,183,86,211,16,168,224,150>>,  \* 96E0A810D356B78A
    <<15,135,231,47,31,56,154,90>>,  \* 5A9A381F2FE7870F
    <<48,85,78,233,237,98,173,213>>,  \* D5AD62EDE94E5530
    <<39,20,141,54,232,229,37,210>>,  \* D225E5E8368D1427
    <<49,70,175,199,112,123,151,101>>,  \* 65977B70C7AF4631
    <<79,215,57,222,178,137,248,153>>,  \* 99F889B2DE39D74F
    <<67,209,225,84,191,48,63,35>>,  \* 233F30BF54E1D143
    <<151,60,166,217,211,117,150,154>>,  \* 9A9675D3D9A63C97
    <<168,249,52,243,79,85,112,84>>,  \* 5470554FF334F9A8
    <<136,86,79,74,116,203,106,22>>,  \* 166ACB744A4F5688
    <<173,174,228,178,170,76,199,112>>,  \* 70C74CAAB2E4AEAD
    <<18,77,41,111,100,145,208,240>>,  \* F0D091646F294D12
    <<209,49,64,104,137,42,184,87>>,  \* 57B82A89684031D1
    <<107,11,190,97,90,90,217,239>>,  \* EFD95A5A61BE0B6B
    <<154,242,242,105,233,18,189,47>>,  \* 2FBD12E969F2F29A
    <<232,159,255,254,19,112,211,155>>,  \* 9BD37013FEFF9FE8
    <<6,90,8,214,4,4,155,63>>,  \* 3F9B0404D6085A06
    <<21,254,108,22,243,193,64,73>>,  \* 4940C1F3166CFE15
    <<251,222,243,205,77,44,84,9>>,  \* 09542C4DCDF3DEFB
    <<227,92,205,133,131,33,197,180>>,  \* B4C5218385CD5CE3
    <<65,166,98,68,220,183,53,201>>,  \* C935B7DC4462A641
    <<63,182,211,142,166,248,23,52>>,  \* 3417F8A68ED3B63F
    <<64,91,33,91,41,89,9,184>>,  \* B80959295B215B40
    <<114,133,140,59,239,218,156,249>>,  \* F99CDAEF3B8C8572
    <<93,185,252,248,20,6,140,1>>,  \* 018C0614F8FCB95D
    <<243,205,58,26,205,172,20,27>>,  \* 1B14ACCD1A3ACDF3
    <<45,115,187,0,242,113,212,132>>,  \* 84D471F200BB732D
    <<22,218,232,149,14,17,163,193>>,  \* C1A3110E95E8DA16
    <<184,130,26,191,32,114,10,67>>,  \* 430A7220BF1A82B8
    <<14,33,223,57,13,9,126,183>>,  \* B77E090D39DF210E
    <<157,94,208,60,159,189,244,94>>,  \* 5EF4BD9F3CD05E9D
    <<68,164,87,126,218,246,79,157>>,  \* 9D4FF6DA7E57A444
    <<248,165,212,131,225,96,29,218>>,  \* DA1D60E183D4A5F8
    <<71,142,153,23,132,195,135,178>>,  \* B287C38417998E47
    <<134,24,179,27,18,220,62,254>>,  \* FE3EDC121BB31886
    <<239,203,12,152,204,60,254,199>>,  \* C7FE3CCC980CCBEF
    <<3,253,155,24,144,181,111,228>>,  \* E46FB590189BFD03
    <<220,87,76,154,70,253,50,55>>,  \* 3732FD469A4C57DC
    <<101,173,241,124,160,0,247,126>>,  \* 7EF700A07CF1AD65
    <<89,136,29,163,104,68,198,89>>,  \* 59C64468A31D8859
    <<246,97,91,212,180,176,47,118>>,  \* 762FB0B4D45B61F6
    <<24,119,4,153,208,174,91,21>>,  \* 155BAED099047718
    <<166,186,80,61,76,94,117,104>>,  \* 68755E4C3D50BAA6
    <<223,180,216,34,127,78,33,233>>,  \* E9214E7F22D8B4DF
    <<244,149,172,46,83,191,221,42>>,  \* 2ADDBF532EAC95F4
    <<9,1,189,180,9,57,174,50>>,  \* 32AE3909B4BD0109
    <<80,52,142,176,55,245,77,131>>,  \* 834DF537B08E3450
    <<141,114,32,66,168,157,32,250>>,  \* FA209DA84220728D
    <<247,35,254,158,155,29,105,158>>,  \* 9E691D9B9EFE23F7
    <<127,141,174,196,136,210,70,4>>,  \* 0446D288C4AE8D7F
    <<91,120,105,225,36,197,76,123>>,  \* 7B4CC524E169785B
    <<133,19,202,53,1,127,216,33>>,  \* 21D87F0135CA1385
    <<165,138,123,19,15,64,187,206>>,  \* CEBB400F137B8AA5
    <<190,150,7,88,102,43,46,39>>,  \* 272E2B66580796BE
    <<222,176,194,37,65,38,18,54>>,  \* 3612264125C2B0DE
    <<178,251,30,173,189,2,119,5>>,  \* 057702BDAD1EFBB2
    <<233,75,248,172,142,187,186,212>>,  \* D4BABB8EACF84BE9
    <<123,198,27,100,57,49,88,145>>,  \* 91583139641BC67B
    <<36,224,54,128,224,45,220,139>>,  \* 8BDC2DE08036E024
    <<237,104,159,244,86,129,60,96>>,  \* 603C8156F49F68ED
    <<17,81,239,219,247,54,210,247>>,  \* F7D236F7DBEF5111
    <<128,30,210,138,89,196,39,151>>,  \* 9727C4598AD21E80
    <<215,95,10,103,150,8,138,160>>,  \* A08A0896670A5FD7
    <<203,169,235,9,67,143,74,203>>,  \* CB4A8F4309EBA9CB
    <<161,54,112,15,75,86,175,129>>,  \* 81AF564B0F7036A1
    <<189,154,25,120,167,154,185,192>>,  \* C0B99AA778199ABD
    <<82,233,200,63,200,30,159,149>>,  \* 959F1EC83FC8E952
    <<185,129,74,121,119,80,80,140>>,  \* 8C505077794A81B9
    <<240,56,99,5,143,175,202,58>>,  \* 3ACAAF8F056338F0
    <<120,103,122,98,80,63,180,7>>,  \* 07B43F50627A6778
    <<119,204,236,245,73,171,68,74>>,  \* 4A44AB49F5ECCC77
    <<152,238,121,182,228,214,195,59>>,  \* 3BC3D6E4B679EE98
    <<140,16,20,207,209,212,192,156>>,  \* 9CC0D4D1CF14108C
    <<160,200,107,32,11,192,6,68>>,  \* 4406C00B206BC8A0
    <<137,45,215,200,84,136,161,130>>,  \* 82A18854C8D72D89
    <<44,67,60,92,179,102,227,103>>,  \* 67E366B35C3C432C
    <<242,55,43,16,97,221,35,185>>,  \* B923DD61102B37F2
    <<29,39,132,216,121,39,171,86>>,  \* 56AB2779D884271D
    <<175,37,21,255,176,225,131,190>>,  \* BE83E1B0FF1525AF
    <<169,73,126,33,212,101,124,251>>,  \* FB7C65D4217E49A9
    <<212,231,72,109,231,224,219,107>>,  \* 6BDBE0E76D48E7D4
    <<158,23,217,69,135,130,223,8>>,  \* 08DF828745D9179E
    <<52,189,83,221,154,106,234,34>>,  \* 22EA6A9ADD53BD34
    <<10,32,34,86,28,20,110,227>>,  \* E36E141C5622200A
    <<238,80,183,140,27,93,128,127>>,  \* 7F805D1B8CB750EE
    <<55,232,88,159,165,199,229,175>>,  \* AFE5C7A59F58E837
    <<60,194,177,79,106,153,127,226>>,  \* E27F996A4FB1C23C
    <<208,240,117,7,251,125,134,211>>,  \* D3867DFB0775F0D0
    <<26,137,136,110,222,115,230,208>>,  \* D0E673DE6E88891A
    <<37,108,184,175,158,235,58,18>>,  \* 123AEB9EAFB86C25
    <<149,184,69,193,213,213,241,48>>,  \* 30F1D5D5C145B895
    <<231,105,114,238,45,74,67,187>>,  \* BB434A2DEE7269E7
    <<56,250,49,249,236,103,203,120>>,  \* 78CB67ECF931FA38
    <<156,191,59,50,114,3,59,243>>,  \* F33B0372323BBF9C
    <<116,156,39,251,54,99,214,82>>,  \* 52D66336FB279C74
    <<170,78,251,10,172,51,95,80>>,  \* 505F33AC0AFB4EAA
    <<135,225,204,162,153,205,165,232>>,  \* E8A5CD99A2CCE187
    <<187,48,45,30,128,116,73,83>>,  \* 534974801E2D30BB
    <<144,109,135,213,17,87,45,141>>,  \* 8D2D5711D5876D90
    <<142,3,188,145,40,65,26,31>>,  \* 1F1A412891BC038E
    <<72,102,229,130,29,231,226,214>>,  \* D6E2E71D82E56648
    <<183,50,119,73,58,108,3,116>>,  \* 74036C3A497732B7
    <<171,245,97,99,217,126,182,137>>,  \* 89B67ED96361F5AB
    <<162,2,234,241,216,149,237,255>>,  \* FFED95D8F1EA02A2
    <<61,212,100,20,214,59,43,231>>,  \* E72B3BD61464D43D
    <<32,72,220,11,23,15,48,166>>,  \* A6300F170BDC4820
    <<122,167,120,237,96,135,193,235>>  \* EBC18760ED78A77A
  >>

\* S-box T2: 256 words, each written as its 8 little-endian bytes.
T2 ==
  <<
    <<56,33,161,5,90,190,166,230>>,  \* E6A6BE5A05A12138
    <<152,124,248,180,165,34,161,181>>,  \* B5A122A5B4F87C98
    <<144,105,11,20,137,96,60,86>>,  \* 563C6089140B6990
    <<213,93,31,57,46,203,70,76>>,  \* 4C46CB2E391F5DD5
    <<52,148,183,201,219,173,50,217>>,  \* D932ADDBC9B79434
    <<245,175,21,32,228,112,234,8>>,  \* 08EA70E42015AFF5
    <<241,140,71,62,103,166,101,215>>,  \* D765A6673E478CF1
    <<153,141,39,171,126,117,251,196>>,  \* C4FB757EAB278D99
    <<146,6,110,45,134,198,17,223>>,  \* DF11C6862D6E0692
    <<22,59,127,13,241,132,235,221>>,  \* DDEB84F10D7F3B16
    <<4,234,101,166,4,246,46,111>>,  \* 6F2EF604A665EA04
    <<179,223,224,240,15,15,142,74>>,  \* 4A8E0F0FF0E0DFB3
    <<81,186,188,61,248,238,237,165>>,  \* A5EDEEF83DBCBA51
    <<30,55,164,14,42,10,79,252>>,  \* FC4F0A2A0EA4371E
    <<41,132,179,92,168,29,62,232>>,  \* E83E1DA85CB38429
    <<226,28,27,186,130,248,143,220>>,  \* DC8FF882BA1B1CE2
    <<13,232,83,131,94,80,69,205>>,  \* CD45505E8353E80D
    <<23,7,219,212,0,154,209,24>>,  \* 18D19A00D4DB0717
    <<1,129,243,165,237,207,160,52>>,  \* 34A0CFEDA5F38101
    <<242,202,135,136,81,126,231,11>>,  \* 0BE77E518887CAF2
    <<54,81,196,179,56,20,52,30>>,  \* 1E341438B3C45136
    <<249,204,137,144,244,151,87,224>>,  \* E05797F49089CCF9
    <<20,29,89,242,157,63,210,255>>,  \* FFD23F9DF2591D14
    <<205,197,149,133,34,218,61,84>>,  \* 543DDA228595C5CD
    <<51,42,5,153,253,129,31,102>>,  \* 661F81FD99052A33
    <<118,123,15,219,65,230,54,135>>,  \* 8736E641DB0F7B76
    <<7,83,142,65,37,119,34,21>>,  \* 15227725418E5307
    <<250,178,46,22,70,127,95,226>>,  \* E25F7F46162EB2FA
    <<254,217,19,108,18,178,168,72>>,  \* 48A8B2126C13D9FE
    <<234,110,231,146,23,84,220,175>>,  \* AFDC541792E76EEA
    <<143,137,209,198,191,18,217,3>>,  \* 03D912BFC6D1898F
    <<27,245,131,27,250,170,177,49>>,  \* 31B1AAFA1B83F51B
    <<217,183,42,228,150,39,172,241>>,  \* F1AC2796E42AB7D9
    <<172,235,210,252,215,167,163,64>>,  \* 40A3A7D7FCD2EBAC
    <<197,188,251,10,109,19,86,16>>,  \* 1056136D0AFBBCC5
    <<133,12,109,154,221,225,137,120>>,  \* 7889E1DD9A6D0C85
    <<170,116,121,42,120,37,53,211>>,  \* D33525782A7974AA
    <<155,192,138,7,9,93,226,167>>,  \* A7E25D09078AC09B
    <<208,237,198,234,179,56,65,189>>,  \* BD4138B3EAC6EDD0
    <<112,158,235,113,190,191,10,146>>,  \* 920ABFBE71EB9E70
    <<92,98,194,79,245,208,165,162>>,  \* A2A5D0F54FC2625C
    <<163,144,18,11,107,227,84,192>>,  \* C054E36B0B1290A3
    <<43,147,254,98,255,89,221,246>>,  \* F6DD59FF62FE932B
    <<125,172,168,17,69,53,55,53>>,  \* 3537354511A8AC7D
    <<212,220,250,114,145,94,132,202>>,  \* CA845E9172FADCD4
    <<220,32,157,50,96,43,248,132>>,  \* 84F82B60329D20DC
    <<24,47,103,205,225,44,198,121>>,  \* 79C62CE1CD672F18
    <<44,100,36,209,173,162,9,139>>,  \* 8B09A2ADD124642C
    <<38,231,217,25,106,233,193,208>>,  \* D0C1E96A19D9E726
    <<12,80,169,75,155,106,120,90>>,  \* 5A786A9B4BA9500C
    <<243,67,76,99,54,3,2,14>>,  \* 0E020336634C43F3
    <<34,216,102,235,74,71,123,193>>,  \* C17B474AEB66D822
    <<194,170,155,236,227,26,115,106>>,  \* 6A731AE3EC9BAAC2
    <<88,2,132,224,122,102,38,130>>,  \* 8226667AE0840258
    <<165,236,202,145,118,86,212,103>>,  \* 67D4567691CAECA5
    <<181,173,117,72,92,21,148,29>>,  \* 1D94155C4875ADB5
    <<223,63,129,91,152,253,0,109>>,  \* 6D00FD985B813FDF
    <<6,205,116,183,252,110,40,81>>,  \* 51286EFCB774CD06
    <<175,68,167,31,71,52,136,94>>,  \* 5E8834471FA744AF
    <<46,174,97,231,174,160,44,247>>,  \* F72CA0AEE761AE2E
    <<154,224,232,174,205,228,64,190>>,  \* BE40E4CDAEE8E09A
    <<101,246,24,81,187,11,151,233>>,  \* E9970BBB5118F665
    <<100,25,223,51,235,75,110,114>>,  \* 726E4BEB33DF1964
    <<98,151,25,41,7,0,59,112>>,  \* 703B000729199762
    <<167,48,239,245,22,216,49,70>>,  \* 4631D816F5EF30A7
    <<190,166,4,21,181,181,128,184>>,  \* B880B5B51504A6BE
    <<108,75,216,126,195,147,23,100>>,  \* 641793C37ED84B6C
    <<150,125,233,246,119,237,33,123>>,  \* 7B21ED77F6E97D96
    <<115,107,249,46,49,6,99,119>>,  \* 776306312EF96B73
    <<244,243,111,232,72,137,82,174>>,  \* AE528948E86FF3F4
    <<248,248,163,134,242,215,219,83>>,  \* 53DBD7F286A3F8F8
    <<99,16,252,76,231,220,202,22>>,  \* 16CADCE74CFC1063
    <<221,198,82,250,189,25,92,0>>,  \* 005C19BDFA52C6DD
    <<211,106,212,100,93,143,134,104>>,  \* 68868F5D64D46AD3
    <<106,24,30,207,44,81,157,58>>,  \* 3A9D512CCF1E186A
    <<174,96,86,56,194,98,126,54>>,  \* 367E62C2385660AE
    <<215,177,220,119,234,231,89,227>>,  \* E359E7EA77DCB1D7
    <<110,190,154,116,115,7,108,82>>,  \* 526C0773749ABE6E
    <<75,115,159,208,249,229,90,115>>,  \* 735AE5F9D09F734B
    <<168,139,85,138,204,199,63,73>>,  \* 493FC7CC8A558BA8
    <<69,171,65,48,83,193,185,176>>,  \* B0B9C1533041AB45
    <<189,89,10,71,186,88,25,50>>,  \* 321958BA470A59BD
    <<147,195,70,95,11,176,45,133>>,  \* 852DB00B5F46C393
    <<229,176,54,211,43,155,32,145>>,  \* 91209B2BD336B0E5
    <<159,241,158,101,125,79,96,110>>,  \* 6E604F7D659EF19F
    <<36,203,44,120,226,138,154,185>>,  \* B99A8AE2782CCB24
    <<199,196,20,200,182,42,245,204>>,  \* CCF52AB6C814C4C7
    <<123,114,17,190,175,217,39,71>>,  \* 4727D9AFBE11727B
    <<77,179,33,1,12,13,149,126>>,  \* 7E950D0C0121B34D
    <<31,71,173,112,86,67,111,117>>,  \* 756F435670AD471F
    <<73,104,90,97,66,212,173,245>>,  \* F5ADD442615A6849
    <<122,149,185,128,153,224,135,78>>,  \* 4E87E09980B9957A
    <<85,227,174,80,223,161,207,42>>,  \* 2ACFA1DF50AEE355
    <<86,213,47,253,58,38,152,216>>,  \* D898263AFD2FD556
    <<214,143,12,216,77,146,244,200>>,  \* C8F4924DD80C8FD6
    <<58,23,74,117,61,202,153,207>>,  \* CF99CA3D754A173A
    <<60,191,145,175,172,123,71,254>>,  \* FE477BACAF91BF3C
    <<45,193,144,214,246,113,83,237>>,  \* ED5371F6D690C12D
    <<148,112,104,94,40,92,26,131>>,  \* 831A5C285E687094
    <<164,160,8,55,10,201,211,197>>,  \* C5D3C90A3708A0A4
    <<128,101,208,23,55,144,127,15>>,  \* 0F7F903717D06580
    <<127,242,253,184,19,187,249,25>>,  \* 19F9BB13B8FDF27F
    <<67,40,80,77,27,111,189,177>>,  \* B1BD6F1B4D502843
    <<18,64,255,143,163,27,118,28>>,  \* 1C761BA38FFF4012
    <<59,31,226,226,196,48,21,13>>,  \* 0D1530C4E2E21F3B
    <<138,44,55,167,105,206,67,137>>,  \* 8943CE69A7372C8A
    <<102,206,181,254,17,78,24,229>>,  \* E5184E11FEB5CE66
    <<33,102,115,189,128,219,139,97>>,  \* 618BDB80BD736621
    <<11,77,87,139,214,186,41,125>>,  \* 7D29BAD68B574D0B
    <<91,254,230,37,62,97,187,129>>,  \* 81BB613E25E6FE5B
    <<63,145,7,188,16,156,28,7>>,  \* 071C9C10BC07913F
    <<151,45,172,9,121,235,190,199>>,  \* C7BEEB7909AC2D97
    <<87,215,197,59,53,141,229,195>>,  \* C3E58D353BC5D757
    <<232,97,143,243,146,120,1,235>>,  \* EB017892F38F61E8
    <<26,194,28,155,156,251,239,212>>,  \* D4EFFB9C9B1CC21A
    <<171,247,148,244,38,125,114,153>>,  \* 99727D26F494F7AB
    <<3,62,107,149,162,99,224,163>>,  \* A3E063A2956B3E03
    <<48,156,160,74,154,139,74,157>>,  \* 9D4A8B9A4AA09C30
    <<180,15,9,0,213,183,106,63>>,  \* 3F6AB7D500090FB4
    <<192,138,38,87,160,242,192,156>>,  \* 9CC0F2A057268AC0
    <<209,66,191,237,45,157,238,61>>,  \* 3DEE9D2DEDBF42D1
    <<114,169,96,121,200,73,15,51>>,  \* 330F49C87960A972
    <<65,27,66,135,2,114,178,198>>,  \* C6B2720287421B41
    <<156,54,0,124,192,158,197,10>>,  \* 0AC59EC07C00369C
    <<37,52,53,203,73,172,78,239>>,  \* EF4EAC49CB353425
    <<216,41,1,239,78,36,80,244>>,  \* F450244EEF0129D8
    <<182,222,244,202,229,70,204,138>>,  \* 8ACC46E5CAF4DEB6
    <<247,99,146,152,99,171,254,47>>,  \* 2FFEAB63989263F7
    <<120,69,122,93,254,185,124,143>>,  \* 8F7CB9FE5D7A4578
    <<53,70,99,78,100,247,216,91>>,  \* 5BD8F7644E634635
    <<0,201,45,191,21,115,122,66>>,  \* 427A7315BF2DC900
    <<28,38,37,33,170,196,208,23>>,  \* 17D0C4AA2125261C
    <<80,142,81,147,108,72,146,57>>,  \* 3992486C93518E50
    <<195,212,215,162,224,254,203,180>>,  \* B4CBFEE0A2D7D4C3
    <<141,221,93,44,32,214,117,124>>,  \* 7C75D6202C5DDD8D
    <<97,108,91,227,216,149,194,219>>,  \* DBC295D8E35B6C61
    <<25,43,3,2,211,105,179,96>>,  \* 60B369D302032B19
    <<50,65,228,220,95,104,66,206>>,  \* CE42685FDCE44132
    <<16,86,246,221,185,221,243,6>>,  \* 06F3DDB9DDF65610
    <<240,72,225,181,29,210,164,142>>,  \* 8EA4D21DB5E148F0
    <<111,73,205,47,230,252,176,32>>,  \* 20B0FCE62FCD496F
    <<49,238,176,88,35,145,27,44>>,  \* 2C1B912358B0EE31
    <<8,163,245,24,184,23,131,178>>,  \* B28317B818F5A308
    <<207,210,166,156,24,30,156,168>>,  \* A89C1E189CA6D2CF
    <<200,219,170,106,87,24,107,12>>,  \* 0C6B18576AAADBC8
    <<227,250,153,18,169,234,93,182>>,  \* B65DEAA91299FAE3
    <<231,39,16,127,75,121,43,251>>,  \* FB2B794B7F1027E7
    <<235,91,59,68,127,49,228,4>>,  \* 04E4317F443B5BEB
    <<166,208,57,89,50,45,133,75>>,  \* 4B852D325939D0A6
    <<252,127,32,251,238,107,174,213>>,  \* D5AE6BEEFB207FFC
    <<116,211,199,129,178,130,150,48>>,  \* 309682B281C7D374
    <<117,180,195,148,161,9,227,186>>,  \* BAE309A194C3B475
    <<5,159,180,19,123,249,195,140>>,  \* 8CC3F97B13B49F05
    <<103,57,41,248,47,66,169,152>>,  \* 98A9422FF8293967
    <<124,255,118,16,176,22,75,36>>,  \* 244B16B01076FF7C
    <<238,103,61,102,28,87,191,248>>,  \* F8BF571C663D67EE
    <<161,13,227,238,88,103,13,31>>,  \* 1F0D6758EEE30DA1
    <<183,185,222,122,217,17,182,201>>,  \* C9B611D97ADEB9B7
    <<162,87,108,123,136,213,175,183>>,  \* B7AFD5887B6C57A2
    <<225,79,152,107,132,174,144,98>>,  \* 6290AE846B984FE1
    <<253,165,193,172,222,76,223,148>>,  \* 94DF4CDEACC1A5FD
    <<255,58,72,197,209,91,138,5>>,  \* 058A5BD1C5483AFF
    <<55,60,186,66,193,108,22,99>>,  \* 63166CC142BA3C37
    <<64,111,247,178,110,82,184,141>>,  \* 8DB8526EB2F76F40
    <<78,109,13,111,3,128,8,225>>,  \* E10880036F0D6D4E
    <<29,49,29,151,201,35,5,158>>,  \* 9E0523C9971D311D
    <<145,214,124,204,36,40,236,69>>,  \* 45EC2824CC7CD691
    <<201,130,35,230,89,131,91,87>>,  \* 575B8359E62382C9
    <<149,153,136,196,13,64,158,250>>,  \* FA9E400DC4889995
    <<104,21,114,69,203,62,130,209>>,  \* D1823ECB45721568
    <<47,8,6,130,59,152,253,218>>,  \* DAFD983B8206082F
    <<203,168,134,35,8,41,125,170>>,  \* AA7D29082386A8CB
    <<136,117,184,3,68,205,159,38>>,  \* 269FCD4403B87588
    <<224,209,189,40,247,245,145,27>>,  \* 1B91F5F728BDD1E0
    <<246,1,2,4,57,159,102,228>>,  \* E4669F39040201F6
    <<222,74,240,140,33,124,29,122>>,  \* 7A1D7C218CF04ADE
    <<206,229,156,215,41,60,98,101>>,  \* 65623C29D79CE5CE
    <<177,11,192,150,144,68,104,35>>,  \* 2368449096C00BB1
    <<186,3,165,157,135,241,155,171>>,  \* AB9BF1879DA503BA
    <<142,5,88,164,177,236,35,188>>,  \* BC23ECB1A458058E
    <<204,30,64,187,1,223,88,154>>,  \* 9A58DF01BB401ECC
    <<61,20,95,168,104,232,112,160>>,  \* A070E868A85F143D
    <<158,35,242,125,48,136,241,79>>,  \* 4FF188307DF2239E
    <<131,17,100,26,180,101,213,20>>,  \* 14D565B41A641183
    <<2,22,112,82,116,51,19,238>>,  \* EE13337452701602
    <<9,94,40,63,207,61,14,149>>,  \* 950E3DCF3F285E09
    <<83,9,200,185,84,2,147,89>>,  \* 59930254B9C80953
    <<109,218,48,137,64,153,242,59>>,  \* 3BF299408930DA6D
    <<135,19,105,83,63,148,85,169>>,  \* A955943F53691387
    <<132,135,203,169,202,222,94,161>>,  \* A15EDECAA9CB8784
    <<160,233,43,53,39,33,20,41>>,  \* 29142127352BE9A0
    <<251,122,78,255,31,55,240,118>>,  \* 76F0371FFF4E7AFB
    <<40,34,79,39,80,244,57,2>>,  \* 0239F450274F2228
    <<139,134,94,29,240,58,7,187>>,  \* BB073AF01D5E868B
    <<193,150,14,193,113,5,200,191>>,  \* BFC80571C10E96C1
    <<35,46,34,104,133,8,103,210>>,  \* D267088568222E23
    <<176,181,128,142,212,163,113,150>>,  \* 9671A3D48E80B5B0
    <<129,187,147,225,138,211,181,85>>,  \* 55B5D38AE193BB81
    <<184,4,139,161,208,226,58,105>>,  \* 693AE2D0A18B04B8
    <<95,51,213,173,236,180,72,92>>,  \* 5C48B4ECADD5335F
    <<202,161,22,73,25,59,116,253>>,  \* FD743B194916A1CA
    <<196,152,190,52,129,1,119,37>>,  \* 2577018134BE98C4
    <<173,164,84,60,232,135,121,231>>,  \* E77987E83C54A4AD
    <<185,225,51,218,20,16,225,40>>,  \* 28E11014DA33E1B9
    <<19,162,106,34,158,197,12,39>>,  \* 270CC59E226AA213
    <<96,95,26,109,117,95,73,113>>,  \* 71495F756D1A5F60
    <<119,239,175,96,251,83,232,155>>,  \* 9BE853FB60AFEF77
    <<191,61,68,247,167,134,199,173>>,  \* ADC786A7F7443DBF
    <<130,154,178,115,97,69,4,9>>,  \* 0904456173B29A82
    <<94,189,50,194,102,122,188,88>>,  \* 58BC7A66C232BD5E
    <<178,200,58,103,140,85,6,243>>,  \* F306558C673AC8B2
    <<42,119,201,182,198,57,246,65>>,  \* 41F639C6B6C9772A
    <<218,53,218,159,233,239,109,33>>,  \* 216DEFE99FDA35DA
    <<21,230,123,28,199,12,100,17>>,  \* 11640CC71C7BE615
    <<39,85,92,86,148,54,196,147>>,  \* 93C43694565C5527
    <<57,120,119,70,98,142,3,234>>,  \* EA038E6246777839
    <<105,36,62,90,206,243,171,249>>,  \* F9ABF3CE5A3E2469
    <<210,18,211,15,141,118,30,116>>,  \* 741E768D0FD312D2
    <<198,82,214,206,131,184,68,1>>,  \* 0144B883CED652C6
    <<82,133,63,163,91,90,11,194>>,  \* C20B5A5BA33F8552
    <<157,90,67,195,51,150,230,26>>,  \* 1AE69633C3435A9D
    <<236,253,140,8,164,140,162,151>>,  \* 97A28CA4088CFDEC
    <<32,244,150,30,60,164,36,136>>,  \* 8824A43C1E96F420
    <<70,167,238,110,166,47,97,55>>,  \* 37612FA66EEEA746
    <<90,14,207,249,101,177,76,107>>,  \* 6B4CB165F9CF0E5A
    <<74,251,171,160,6,28,170,67>>,  \* 43AA1C06A0ABFB4A
    <<107,121,98,241,111,194,77,127>>,  \* 7F4DC26FF162796B
    <<15,155,237,84,142,204,186,108>>,  \* 6CBACC8E54ED9B0F
    <<62,37,187,210,239,255,183,166>>,  \* A6B7FFEFD2BB253E
    <<79,157,162,176,149,188,37,46>>,  \* 2E25BC95B0A29D4F
    <<140,56,241,222,139,165,214,134>>,  \* 86D6A58BDEF1388C
    <<84,240,182,118,197,74,215,222>>,  \* DED74AC576B6F054
    <<93,128,69,43,188,189,48,128>>,  \* 8030BDBC2B45805D
    <<137,146,77,233,112,175,129,60>>,  \* 3C81AF70E94D9289
    <<219,0,49,158,218,109,255,62>>,  \* 3EFF6DDA9E3100DB
    <<71,136,204,223,159,195,141,179>>,  \* B38DC39FDFCC8847
    <<126,184,23,141,82,133,56,18>>,  \* 123885528D17B87E
    <<66,182,177,64,210,14,218,242>>,  \* F2DA0ED240B1B642
    <<169,249,75,213,220,250,206,68>>,  \* 44CEFADCD54BF9A9
    <<230,126,60,67,14,32,18,19>>,  \* 1312200E433C7EE6
    <<72,199,120,58,79,200,252,159>>,  \* 9FFCC84F3A78C748
    <<187,118,133,36,114,31,205,240>>,  \* F0CD1F72248576BB
    <<228,207,56,54,5,116,105,236>>,  \* EC6974053638CFE4
    <<76,78,236,12,124,182,167,43>>,  \* 2BA7B67C0CEC4E4C
    <<237,50,206,229,243,77,47,172>>,  \* AC2F4DF3E5CE32ED
    <<17,76,234,38,67,209,51,203>>,  \* CB33D14326EA4C11
    <<188,88,126,199,76,4,233,164>>,  \* A4E9044CC77E58BC
    <<239,252,52,217,147,50,81,95>>,  \* 5F513293D934FCEF
    <<68,84,229,6,85,100,201,93>>,  \* 5DC9645506E55444
    <<10,228,125,49,143,65,222,80>>,  \* 50DE418F317DE40A
    <<89,226,221,105,26,179,140,56>>,  \* 388CB31A69DDE259
    <<134,10,130,85,52,168,180,45>>,  \* 2DB4A83455820A86
    <<233,26,113,132,30,169,16,144>>,  \* 9010A91E84711AE9
    <<113,131,73,177,183,240,247,77>>,  \* 4DF7F0B7B1498371
    <<121,113,151,192,171,46,42,214>>,  \* D62A2EABC0977179
    <<14,92,141,170,151,192,250,34>>  \* 22FAC097AA8D5C0E
  >>

\* S-box T3: 256 words, each written as its 8 little-endian bytes.
T3 ==
  <<
    <<155,243,218,241,47,204,159,244>>,  \* F49FCC2FF1DAF39B
    <<129,146,242,111,198,213,127,72>>,  \* 487FD5C66FF29281
    <<63,168,220,252,103,6,163,232>>,  \* E8A30667FCDCA83F
    <<99,206,252,210,227,75,155,44>>,  \* 2C9B4BE3D2FCCE63
    <<194,187,251,147,75,247,63,218>>,  \* DA3FF74B93FBBBC2
    <<102,186,112,254,210,101,161,47>>,  \* 2FA165D2FE70BA66
    <<212,147,14,151,121,226,3,161>>,  \* A103E279970E93D4
    <<113,94,228,176,119,236,205,190>>,  \* BECDEC77B0E45E71
    <<151,228,133,57,114,30,180,207>>,  \* CFB41E723985E497
    <<23,80,247,94,2,170,10,183>>,  \* B70AAA025EF75017
    <<224,184,64,56,240,9,35,212>>,  \* D42309F03840B8E0
    <<121,133,137,53,208,26,252,142>>,  \* 8EFC1AD035898579
    <<197,171,178,226,11,146,198,150>>,  \* 96C6920BE2B2ABC5
    <<114,145,90,55,99,65,175,102>>,  \* 66AF4163375A9172
    <<251,39,113,202,220,171,116,33>>,  \* 2174ABDCCA7127FB
    <<65,255,114,74,166,206,60,179>>,  \* B33CCEA64A72FF41
    <<165,102,48,8,51,73,74,240>>,  \* F04A4933083066A5
    <<245,154,40,215,205,10,151,141>>,  \* 8D970ACDD7289AF5
    <<94,194,200,49,224,232,150,143>>,  \* 8F96E8E031C8C25E
    <<71,93,135,118,34,192,254,243>>,  \* F3FEC02276875D47
    <<221,144,97,5,16,243,123,236>>,  \* EC7BF310056190DD
    <<145,20,15,187,174,176,173,245>>,  \* F5ADB0AEBB0F1491
    <<146,136,213,15,133,248,80,155>>,  \* 9B50F8850FD58892
    <<232,77,183,88,131,72,117,73>>,  \* 4975488358B74DE8
    <<97,28,83,145,246,79,53,163>>,  \* A3354FF691531C61
    <<238,198,210,129,228,187,2,7>>,  \* 0702BBE481D2C6EE
    <<152,237,237,125,5,36,251,137>>,  \* 89FB24057DEDED98
    <<2,233,150,133,19,117,48,172>>,  \* AC3075138596E902
    <<237,114,39,23,128,53,45,29>>,  \* 1D2D3580172772ED
    <<13,195,107,142,194,143,115,235>>,  \* EB738FC28E6BC30D
    <<38,67,4,99,143,239,84,88>>,  \* 5854EF8F63044326
    <<190,59,221,90,50,82,92,158>>,  \* 9E5C52325ADD3BBE
    <<35,70,92,50,207,83,170,144>>,  \* 90AA53CF325C4623
    <<103,208,157,52,81,77,210,193>>,  \* C1D24D51349DD067
    <<36,166,158,166,238,207,81,32>>,  \* 2051CFEEA69EA624
    <<79,126,46,134,10,15,34,19>>,  \* 13220F0A862E7E4F
    <<100,72,224,4,148,57,57,206>>,  \* CE39399404E04864
    <<183,252,134,112,164,44,196,217>>,  \* D9C42CA47086FCB7
    <<204,231,3,138,35,210,90,104>>,  \* 685AD2238A03E7CC
    <<219,241,47,171,178,132,100,6>>,  \* 066484B2AB2FF1DB
    <<236,121,191,239,112,93,157,254>>,  \* FE9D5D70EFBF79EC
    <<84,24,72,156,221,185,19,91>>,  \* 5B13B9DD9C481854
    <<173,9,21,237,117,212,240,21>>,  \* 15F0D475ED1509AD
    <<81,152,199,14,6,205,235,11>>,  \* 0BEBCD060EC79851
    <<248,183,58,24,145,103,140,213>>,  \* D58C6791183AB7F8
    <<228,238,243,82,80,124,24,209>>,  \* D1187C5052F3EEE4
    <<255,130,78,229,146,17,93,201>>,  \* C95D1192E54E82FF
    <<162,108,172,185,76,161,238,134>>,  \* 86EEA14CB9AC6CA2
    <<93,125,103,83,177,190,133,52>>,  \* 3485BEB153677D5D
    <<42,73,140,31,120,29,25,221>>,  \* DD191D781F8C492A
    <<249,235,132,167,186,102,8,246>>,  \* F60866BAA784EBF9
    <<116,140,208,162,59,100,143,81>>,  \* 518F643BA2D08C74
    <<34,124,8,225,86,233,82,136>>,  \* 8852E956E1087C22
    <<141,174,16,196,141,203,104,167>>,  \* A768CB8DC410AE8D
    <<26,142,236,191,38,119,4,56>>,  \* 38047726BFEC8E1A
    <<170,69,59,205,180,56,119,166>>,  \* A67738B4CD3B45AA
    <<25,222,13,236,28,105,22,173>>,  \* AD16691CEC0DDE19
    <<7,46,70,128,147,49,212,198>>,  \* C6D4319380462E07
    <<56,25,166,11,109,135,165,197>>,  \* C5A5876D0BA61938
    <<64,216,143,165,31,250,185,22>>,  \* 16B9FA1FA58FD840
    <<24,79,167,60,23,177,138,24>>,  \* 188AB1173CA74F18
    <<31,2,156,201,152,47,218,171>>,  \* ABDA2F98C99C021F
    <<22,232,74,19,171,128,5,62>>,  \* 3E0580AB134AE816
    <<187,90,100,115,183,5,59,95>>,  \* 5F3B05B773645ABB
    <<246,242,117,85,190,162,1,37>>,  \* 2501A2BE5575F2F6
    <<169,139,126,78,0,116,47,27>>,  \* 1B2F74004E7E8BA9
    <<83,217,232,113,3,88,215,28>>,  \* 1CD7580371E8D953
    <<48,78,118,98,149,216,110,127>>,  \* 7F6ED89562764E30
    <<61,0,111,89,255,38,89,177>>,  \* B15926FF596F003D
    <<185,214,197,168,61,41,101,159>>,  \* 9F65293DA8C5D6B9
    <<76,248,144,214,77,240,206,110>>,  \* 6ECEF04DD690F84C
    <<136,175,51,255,95,39,130,71>>,  \* 4782275FFF33AF88
    <<1,8,130,63,8,51,20,228>>,  \* E41433083F820801
    <<181,249,26,154,64,254,13,253>>,  \* FD0DFE409A1AF9B5
    <<107,57,219,44,52,163,37,67>>,  \* 4325A3342CDB396B
    <<82,178,1,179,98,126,231,138>>,  \* 8AE77E62B301B252
    <<90,97,85,102,159,158,111,195>>,  \* C36F9E9F6655615A
    <<9,44,211,146,45,90,69,133>>,  \* 85455A2D92D32C09
    <<133,116,71,73,169,222,199,242>>,  \* F2C7DEA949477485
    <<186,158,163,51,193,180,207,99>>,  \* 63CFB4C133A39EBA
    <<98,84,188,110,204,64,176,131>>,  \* 83B040CC6EBC5462
    <<176,38,179,253,200,84,148,59>>,  \* 3B9454C8FDB326B0
    <<140,215,255,135,158,106,245,86>>,  \* 56F56A9E87FFD78C
    <<198,43,244,153,13,148,194,45>>,  \* 2DC2940D99F42BC6
    <<45,110,9,107,9,223,247,152>>,  \* 98F7DF096B096E2D
    <<191,82,216,58,30,224,166,25>>,  \* 19A6E01E3AD852BF
    <<11,180,212,219,203,156,169,66>>,  \* 42A99CCBDBD4B40B
    <<89,197,233,69,175,152,153,165>>,  \* A59998AF45E9C559
    <<134,49,217,7,232,149,98,54>>,  \* 366295E807D93186
    <<115,247,161,250,27,24,72,107>>,  \* 6B48181BFAA1F773
    <<29,10,122,21,226,87,236,31>>,  \* 1FEC57E2157A0A1D
    <<213,26,32,246,106,68,103,70>>,  \* 4667446AF6201AD5
    <<117,240,176,207,202,235,21,230>>,  \* E615EBCACFB0F075
    <<120,7,41,104,79,31,243,184>>,  \* B8F31F4F68290778
    <<30,209,34,206,214,62,113,34>>,  \* 22713ED6CE22D11E
    <<59,201,195,46,167,193,87,48>>,  \* 3057C1A72EC3C93B
    <<47,31,63,124,195,172,70,203>>,  \* CB46ACC37C3F1F2F
    <<14,245,170,2,253,147,184,219>>,  \* DBB893FD02AAF50E
    <<207,159,11,96,46,217,31,51>>,  \* 331FD92E600B9FCF
    <<214,58,234,72,97,249,152,164>>,  \* A498F96148EA3AD6
    <<234,131,106,139,110,66,216,168>>,  \* A8D8426E8B6A83EA
    <<220,92,115,183,116,178,137,160>>,  \* A089B274B7735CDC
    <<17,74,82,30,115,179,246,135>>,  \* 87F6B3731E524A11
    <<73,103,201,203,229,8,136,17>>,  \* 118808E5CBC96749
    <<148,211,155,177,199,228,6,153>>,  \* 9906E4C7B19BD394
    <<12,162,36,155,126,127,237,175>>,  \* AFED7F7E9B24A20C
    <<167,68,54,235,222,234,9,101>>,  \* 6509EADEEB3644A7
    <<222,14,239,232,211,241,30,108>>,  \* 6C1EF1D3E8EF0EDE
    <<180,143,121,233,67,125,201,185>>,  \* B9C97D43E9798FB4
    <<163,40,12,116,132,215,242,162>>,  \* A2F2D784740C28A3
    <<111,86,151,97,71,150,132,123>>,  \* 7B8496476197566F
    <<157,6,95,182,230,227,91,122>>,  \* 7A5BE3E6B65F069D
    <<16,111,190,120,237,48,99,249>>,  \* F96330ED78BE6F10
    <<21,106,7,122,231,13,230,238>>,  \* EEE60DE77A076A15
    <<208,155,139,160,74,238,75,43>>,  \* 2B4BEE4AA08B9BD0
    <<78,137,184,199,62,166,86,106>>,  \* 6A56A63EC7B8894E
    <<244,254,52,186,89,19,18,2>>,  \* 02121359BA34FEF4
    <<252,3,55,40,248,153,191,76>>,  \* 4CBF99F8283703FC
    <<200,48,175,12,53,113,128,57>>,  \* 398071350CAF30C8
    <<122,104,23,240,137,122,167,208>>,  \* D0A77A89F017687A
    <<105,53,66,158,235,169,193,241>>,  \* F1C1A9EB9E423569
    <<153,129,238,45,40,118,121,140>>,  \* 8C7976282DEE8199
    <<189,122,31,221,165,55,23,93>>,  \* 5D1737A5DD1F7ABD
    <<128,250,169,9,60,67,83,79>>,  \* 4F53433C09A9FA80
    <<217,161,124,223,83,12,139,250>>,  \* FA8B0C53DF7CA1D9
    <<119,203,108,136,188,220,217,63>>,  \* 3FD9DCBC886CCB77
    <<32,71,27,169,124,145,64,192>>,  \* C040917CA91B4720
    <<223,220,209,249,66,1,208,125>>,  \* 7DD00142F9D1DCDF
    <<88,123,56,79,29,252,118,132>>,  \* 8476FC1D4F387B58
    <<3,101,49,243,197,231,248,35>>,  \* 23F8E7C5F3316503
    <<57,115,227,231,68,34,42,3>>,  \* 032A2244E7E37339
    <<75,167,245,80,215,165,135,92>>,  \* 5C87A5D750F5A74B
    <<46,153,152,54,196,76,43,8>>,  \* 082B4CC43698992E
    <<60,246,88,184,236,123,145,223>>,  \* DF917BECB858F63C
    <<218,109,248,91,252,184,112,50>>,  \* 3270B8FC5BF86DDA
    <<118,221,181,41,187,114,174,16>>,  \* 10AE72BB29B5DD76
    <<43,54,0,119,78,201,106,87>>,  \* 576AC94E7700362B
    <<143,251,30,198,218,18,209,26>>,  \* 1AD112DAC61EFB8F
    <<39,164,250,197,14,195,27,105>>,  \* 691BC30EC5FAA427
    <<67,113,50,204,17,99,36,255>>,  \* FF246311CC327143
    <<6,50,229,48,142,54,66,49>>,  \* 3142368E30E53206
    <<150,163,44,224,49,14,56,113>>,  \* 71380E31E02CA396
    <<241,118,173,10,150,92,141,149>>,  \* 958D5C960AAD76F1
    <<54,165,109,193,48,244,214,248>>,  \* F8D6F430C16DA536
    <<210,225,231,27,63,209,255,200>>,  \* C8FFD13F1BE7E1D2
    <<225,219,77,0,102,174,120,117>>,  \* 7578AE66004DDBE1
    <<70,230,123,6,1,63,131,5>>,  \* 05833F01067BE646
    <<109,88,254,59,173,181,52,187>>,  \* BB34B5AD3BFE586D
    <<240,151,43,161,201,52,95,9>>,  \* 095F34C9A12B97F0
    <<168,12,214,37,69,182,122,36>>,  \* 247AB64525D60CA8
    <<209,119,116,1,243,198,219,220>>,  \* DCDBC6F3017477D1
    <<77,210,202,222,212,20,46,74>>,  \* 4A2E14D4DECAD24D
    <<235,30,10,190,217,230,181,189>>,  \* BDB5E6D9BE0A1EEB
    <<171,1,67,121,247,112,126,42>>,  \* 2A7E70F7794301AB
    <<253,64,5,39,138,45,244,222>>,  \* DEF42D8A270540FD
    <<193,34,76,163,192,142,7,1>>,  \* 01078EC0A34C22C1
    <<135,99,193,244,26,81,222,229>>,  \* E5DE511AF4C16387
    <<10,51,154,189,82,58,187,126>>,  \* 7EBB3A52BD9A330A
    <<53,100,125,170,87,120,105,119>>,  \* 77697857AA7D6435
    <<50,76,174,3,22,131,78,0>>,  \* 004E831603AE4C32
    <<18,227,120,173,32,16,162,231>>,  \* E7A21020AD78E312
    <<242,32,180,106,12,167,65,157>>,  \* 9D41A70C6AB420F2
    <<230,65,17,234,24,108,224,40>>,  \* 28E06C18EA1141E6
    <<40,107,79,152,189,140,178,210>>,  \* D2B28CBD984F6B28
    <<131,157,110,68,108,95,183,38>>,  \* 26B75F6C446E9D83
    <<127,141,65,77,140,86,71,186>>,  \* BA47568C4D418D7F
    <<142,61,24,230,191,173,11,216>>,  \* D80BADBFE6183D8E
    <<68,96,22,95,127,109,32,14>>,  \* 0E206D7F5F166044
    <<62,202,203,17,57,164,88,226>>,  \* E258A43911CBCA3E
    <<188,192,29,178,70,23,58,114>>,  \* 723A1746B21DC0BC
    <<211,205,215,245,84,168,202,199>>,  \* C7CAA854F5D7CDD3
    <<156,29,38,61,136,50,172,124>>,  \* 7CAC32883D261D9C
    <<44,148,186,35,100,194,144,118>>,  \* 7690C26423BA942C
    <<184,66,128,71,36,85,229,23>>,  \* 17E55524478042B8
    <<159,56,162,86,118,71,190,224>>,  \* E0BE477656A2389F
    <<160,45,171,103,94,155,40,77>>,  \* 4D289B5E67AB2DA0
    <<49,253,187,143,156,43,134,68>>,  \* 44862B9C8FBBFD31
    <<101,19,20,157,4,200,124,180>>,  \* B47CC8049D141365
    <<147,199,145,43,54,27,44,130>>,  \* 822C1B362B91C793
    <<216,223,19,251,85,70,177,78>>,  \* 4EB14655FB13DFD8
    <<123,169,226,20,7,186,203,30>>,  \* 1ECBBA0714E2A97B
    <<20,95,222,92,157,69,67,97>>,  \* 6143459D5CDE5F14
    <<137,172,240,213,241,251,168,83>>,  \* 53A8FBF1D5F0AC89
    <<0,91,94,28,216,4,234,151>>,  \* 97EA04D81C5E5B00
    <<243,179,253,212,168,129,33,98>>,  \* 622181A8D4FDB3F3
    <<8,18,42,87,65,211,188,233>>,  \* E9BCD341572A1208
    <<138,229,204,67,134,37,17,20>>,  \* 1411258643CCE58A
    <<164,224,198,164,254,197,68,145>>,  \* 9144C5FEA4C6E0A4
    <<15,98,207,101,101,208,51,13>>,  \* 0D33D06565CF620F
    <<161,156,33,159,72,141,164,84>>,  \* 54A48D489F219CA1
    <<33,200,99,109,172,94,62,196>>,  \* C43E5EAC6D63C821
    <<175,13,119,114,58,139,114,169>>,  \* A9728B3A72770DAF
    <<239,135,223,32,123,78,147,215>>,  \* D7934E7B20DF87EF
    <<229,134,62,26,182,3,85,227>>,  \* E35503B61A3E86E5
    <<4,213,25,200,251,33,227,202>>,  \* CAE321FBC819D504
    <<166,191,96,172,179,80,154,18>>,  \* 129A50B3AC60BFA6
    <<195,182,159,126,234,104,94,205>>,  \* CD5E68EA7E9FB6C3
    <<199,177,131,148,25,144,28,176>>,  \* B01C90199483B1C7
    <<108,55,149,194,213,60,233,61>>,  \* 3DE93CD5C295376C
    <<19,173,185,42,223,46,213,174>>,  \* AED52EDF2AB9AD13
    <<132,120,160,192,18,245,96,46>>,  \* 2E60F512C0A07884
    <<201,16,98,227,163,134,61,188>>,  \* BC3D86A3E36210C9
    <<206,81,57,22,155,157,38,53>>,  \* 35269D9B163951CE
    <<250,181,205,208,42,110,125,12>>,  \* 0C7D6E2AD0CDB5FA
    <<51,87,127,216,151,98,232,89>>,  \* 59E86297D87F5733
    <<231,176,141,137,33,242,142,41>>,  \* 298EF221898DB0E7
    <<126,170,165,209,41,0,0,85>>,  \* 55000029D1A5AA7E
    <<69,27,6,181,225,138,192,139>>,  \* 8BC08AE1B5061B45
    <<58,112,146,108,43,28,195,194>>,  \* C2C31C2B6C92703A
    <<66,239,37,175,107,89,204,148>>,  \* 94CC596BAF25EF42
    <<86,4,84,34,219,115,29,10>>,  \* 0A1D73DB22540456
    <<154,23,196,217,249,160,182,4>>,  \* 04B6A0F9D9C4179A
    <<96,60,61,174,162,175,253,239>>,  \* EFFDAFA2AE3D3C60
    <<196,150,148,180,91,7,200,247>>,  \* F7C8075BB49496C4
    <<227,212,28,29,20,199,197,156>>,  \* 9CC5C7141D1CD4E3
    <<52,85,142,33,56,22,189,120>>,  \* 78BD1638218E5534
    <<106,36,80,248,104,21,241,178>>,  \* B2F11568F850246A
    <<41,188,2,149,250,188,250,237>>,  \* EDFABCFA9502BC29
    <<27,5,35,218,242,229,108,121>>,  \* 796CE5F2DA23051B
    <<124,83,147,220,176,40,225,170>>,  \* AAE128B0DC93537C
    <<174,41,75,238,160,61,73,58>>,  \* 3A493DA0EE4B29AE
    <<215,149,104,65,44,107,223,181>>,  \* B5DF6B2C416895D7
    <<55,127,45,18,37,189,171,252>>,  \* FCABBD25122D7F37
    <<177,196,93,16,88,11,129,112>>,  \* 70810B58105DC4B1
    <<144,42,136,247,55,221,15,225>>,  \* E10FDD37F7882A90
    <<92,63,138,81,181,202,77,82>>,  \* 524DCAB5518A3F5C
    <<91,37,81,132,135,133,158,60>>,  \* 3C9E85878451255B
    <<226,52,189,25,129,130,41,64>>,  \* 4029828119BD34E2
    <<203,236,60,93,111,91,160,116>>,  \* 74A05B6F5D3CECCB
    <<202,62,225,66,21,2,16,182>>,  \* B610021542E13ECA
    <<172,226,89,47,209,121,249,15>>,  \* 0FF979D12F59E2AC
    <<80,204,249,228,39,218,55,96>>,  \* 6037DA27E4F9CC50
    <<125,132,241,13,90,151,146,94>>,  \* 5E92975A0DF1847D
    <<254,35,230,211,144,225,109,214>>,  \* D66DE190D3E623FE
    <<72,128,86,123,184,214,50,80>>,  \* 5032D6B87B568048
    <<110,33,53,130,206,183,54,154>>,  \* 9A36B7CE8235216E
    <<74,75,246,36,122,42,39,128>>,  \* 80272A7A24F64B4A
    <<247,22,105,140,139,237,239,147>>,  \* 93EFED8B8C6916F7
    <<85,21,206,76,244,191,221,55>>,  \* 37DDBFF44CCE1555
    <<37,189,153,75,93,219,149,75>>,  \* 4B95DB5D4B99BD25
    <<192,47,129,105,161,253,211,146>>,  \* 92D3FDA169812FC0
    <<182,11,102,144,154,74,26,251>>,  \* FB1A4A9A90660BB6
    <<178,185,164,70,105,25,12,115>>,  \* 730C196946A4B9B2
    <<104,218,73,127,170,137,226,129>>,  \* 81E289AA7F49DA68
    <<95,160,177,131,15,154,102,100>>,  \* 64669A0F83B1A05F
    <<139,244,68,150,125,255,179,39>>,  \* 27B3FF7D9644F48B
    <<179,117,182,141,92,97,107,204>>,  \* CC6B615C8DB675B3
    <<149,190,235,188,185,32,79,103>>,  \* 674F20B9BCEBBE95
    <<130,89,101,117,130,35,49,111>>,  \* 6F31238275655982
    <<5,207,69,62,113,136,228,90>>,  \* 5AE488713E45CF05
    <<87,17,194,84,153,159,97,191>>,  \* BF619F9954C21157
    <<233,234,168,64,96,196,186,234>>,  \* EABAC46040A8EAE9
    <<205,193,192,242,233,111,76,69>>,  \* 454C6FE9F2C0C1CD
    <<28,105,18,100,73,246,156,65>>,  \* 419CF6496412691C
    <<112,15,91,38,239,59,220,211>>,  \* D3DC3BEF265B0F70
    <<158,138,87,195,245,96,14,109>>  \* 6D0E60F5C3578A9E
  >>

\* S-box T4: 256 words, each written as its 8 little-endian bytes.
T4 ==
  <<
    <<85,60,50,38,133,96,14,91>>,  \* 5B0E608526323C55
    <<245,89,27,250,169,193,70,26>>,  \* 1A46C1A9FA1B59F5
    <<250,143,76,124,161,69,226,169>>,  \* A9E245A17C4C8FFA
    <<215,85,41,219,89,81,202,101>>,  \* 65CA5159DB2955D7
    <<194,175,53,206,118,10,219,5>>,  \* 05DB0A76CE35AFC2
    <<69,61,17,169,126,199,234,129>>,  \* 81EAC77EA9113D45
    <<13,10,172,182,138,248,142,82>>,  \* 528EF88AB6AC0A0D
    <<255,227,123,89,83,162,158,160>>,  \* A09EA253597BE3FF
    <<86,205,72,172,179,223,13,67>>,  \* 430DDFB3AC48CD56
    <<111,228,92,244,122,166,179,196>>,  \* C4B3A67AF45CE46F
    <<94,208,226,251,216,207,206,78>>,  \* 4ECECFD8FBE2D05E
    <<240,53,153,179,16,111,245,62>>,  \* 3EF56F10B39935F0
    <<198,25,214,156,130,214,34,11>>,  \* 0B22D6829CD619C6
    <<105,32,223,116,10,70,253,23>>,  \* 17FD460A74DF2069
    <<64,237,16,133,142,204,248,108>>,  \* 6CF8CC8E8510ED40
    <<167,202,110,58,191,36,200,214>>,  \* D6C824BF3A6ECAA7
    <<73,112,129,26,88,61,36,97>>,  \* 61243D581A817049
    <<162,99,193,187,182,172,139,4>>,  \* 048BACB6BBC163A2
    <<50,204,68,125,194,138,163,217>>,  \* D9A38AC27D44CC32
    <<171,16,244,170,91,255,221,127>>,  \* 7FDDFF5BAAF410AB
    <<75,130,4,168,90,73,109,173>>,  \* AD6D495AA804824B
    <<148,159,140,45,79,167,166,225>>,  \* E1A6A74F2D8C9F94
    <<227,232,222,53,18,133,247,212>>,  \* D4F7851235DEE8E3
    <<147,216,64,101,136,127,75,253>>,  \* FD4B7F886540D893
    <<218,191,164,42,4,32,124,36>>,  \* 247C20042AA4BFDA
    <<124,50,209,23,197,161,110,9>>,  \* 096EA1C517D1327C
    <<133,102,26,54,180,102,105,213>>,  \* D56966B4361A6685
    <<125,5,33,18,195,165,125,39>>,  \* 277DA5C31221057D
    <<247,207,58,164,147,152,213,148>>,  \* 94D59893A43ACFF7
    <<129,34,192,205,28,197,240,100>>,  \* 64F0C51CCDC02281
    <<219,137,97,255,196,188,51,61>>,  \* 3D33BCC4FF6189DB
    <<241,106,230,76,24,203,5,224>>,  \* E005CB184CE66AF1
    <<234,155,185,29,29,205,92,255>>,  \* FF5CCD1D1DB99BEA
    <<15,152,66,254,167,84,184,176>>,  \* B0B854A7FE42980F
    <<159,75,141,113,106,106,212,123>>,  \* 7BD46A6A718D4B9F
    <<140,253,165,34,204,168,15,209>>,  \* D10FA8CC22A5FD8C
    <<49,189,228,43,149,132,20,211>>,  \* D31484952BE4BD31
    <<71,56,36,203,95,151,250,199>>,  \* C7FA975FCB243847
    <<7,196,70,88,30,237,134,72>>,  \* 4886ED1E5846C407
    <<4,11,183,30,121,219,205,40>>,  \* 28CDDB791EB70B04
    <<127,65,115,245,226,11,176,194>>,  \* C2B00BE2F573417F
    <<119,248,128,33,69,144,149,92>>,  \* 5C9590452180F877
    <<0,235,112,243,255,221,107,122>>,  \* 7A6BDDFFF370EB00
    <<164,214,217,214,56,158,80,206>>,  \* CE509E38D6D9D6A4
    <<2,167,127,100,0,15,235,235>>,  \* EBEB0F00647FA702
    <<6,111,96,118,207,6,204,29>>,  \* 1DCC06CF76606F06
    <<10,255,134,162,139,242,217,228>>,  \* E4D9F28BA286FF0A
    <<98,194,24,201,93,48,90,216>>,  \* D85A305DC918C262
    <<84,95,34,50,135,29,91,71>>,  \* 475B1D8732225F54
    <<254,181,204,104,22,181,79,45>>,  \* 2D4FB51668CCB5FE
    <<32,186,43,215,217,185,121,166>>,  \* A679B9D9D72BBA20
    <<165,67,45,145,13,28,132,83>>,  \* 53841C0D912D43A5
    <<232,164,18,191,72,170,126,59>>,  \* 3B7EAA48BF12A4E8
    <<223,29,47,242,71,14,30,120>>,  \* 781E0E47F22F1DDF
    <<115,9,181,10,230,12,242,239>>,  \* EFF20CE60AB50973
    <<66,183,255,157,209,97,210,32>>,  \* 20D261D19DFFB742
    <<57,46,42,6,3,43,161,22>>,  \* 16A12B03062A2E39
    <<149,4,101,57,34,235,96,25>>,  \* 1960EB2239650495
    <<184,184,14,213,254,22,28,37>>,  \* 251C16FED50EB8B8
    <<110,1,38,248,48,195,192,154>>,  \* 9AC0C330F826016E
    <<113,118,62,149,101,38,21,237>>,  \* ED152665953E7671
    <<112,149,54,166,148,49,214,2>>,  \* 02D63194A6369570
    <<135,201,177,148,131,240,116,80>>,  \* 5074F08394B1C987
    <<225,92,178,144,140,89,186,112>>,  \* 70BA598C90B25CE1
    <<246,66,151,11,129,21,74,121>>,  \* 794A15810B9742F6
    <<108,140,175,252,233,37,89,13>>,  \* 0D5925E9FCAF8C6C
    <<78,116,104,216,108,113,103,48>>,  \* 3067716CD868744E
    <<27,115,215,232,119,176,10,145>>,  \* 910AB077E8D7731B
    <<97,47,196,90,219,187,97,106>>,  \* 6A61BBDB5AC42F61
    <<103,21,133,240,251,62,81,147>>,  \* 93513EFBF0851567
    <<213,233,131,158,75,114,148,244>>,  \* F494724B9E83E9D5
    <<141,100,9,92,152,225,135,232>>,  \* E887E1985C09648D
    <<253,12,55,117,198,211,177,52>>,  \* 34B1D3C675370CFD
    <<93,37,13,188,51,228,53,220>>,  \* DC35E433BC0D255D
    <<224,27,19,52,66,184,170,208>>,  \* D0AAB84234131BE0
    <<175,126,139,180,80,42,4,8>>,  \* 08042A50B48B7EAF
    <<53,171,163,68,238,196,151,153>>,  \* 9997C4EE44A3AB35
    <<208,153,23,32,73,123,154,130>>,  \* 829A7B49201799D0
    <<65,68,197,183,7,131,59,38>>,  \* 263B8307B7C54441
    <<166,108,106,253,244,149,47,117>>,  \* 752F95F4FD6A6CA6
    <<229,198,8,44,64,23,114,146>>,  \* 927217402C08C6E5
    <<238,217,149,167,84,183,138,42>>,  \* 2A8AB754A795D9EE
    <<61,148,114,47,85,247,66,164>>,  \* A442F7552F72943D
    <<8,18,120,25,78,51,49,44>>,  \* 2C31334E19781208
    <<145,98,238,234,124,141,169,79>>,  \* 4FA98D7CEAEE6291
    <<9,179,93,102,47,134,195,85>>,  \* 55C3862F665DB309
    <<243,177,83,93,23,16,6,189>>,  \* BD0610175D53B1F3
    <<39,63,65,64,184,108,254,70>>,  \* 46FE6CB840413F27
    <<89,250,12,223,146,55,224,63>>,  \* 3FE03792DF0CFA59
    <<143,94,184,46,55,0,231,207>>,  \* CFE700372EB85E8F
    <<24,225,188,173,231,41,190,167>>,  \* A7BE29E7ADBCE118
    <<221,49,132,222,92,238,68,229>>,  \* E544EE5CDE8431DD
    <<62,135,241,65,27,27,120,138>>,  \* 8A781B1B41F1873E
    <<231,240,210,160,120,76,201,165>>,  \* A5C94C78A0D2F0E7
    <<40,7,182,119,40,46,65,57>>,  \* 39412E2877B60728
    <<44,166,201,175,243,94,38,161>>,  \* A1265EF3AFC9A62C
    <<197,6,37,106,12,119,194,188>>,  \* BCC2770C6A2506C5
    <<18,206,225,220,213,109,182,58>>,  \* 3AB66DD5DCE1CE12
    <<55,91,103,74,208,153,84,230>>,  \* E65499D04A675B37
    <<22,210,191,129,52,82,143,125>>,  \* 7D8F523481BFD216
    <<137,243,21,236,252,100,111,15>>,  \* 0F6F64FCEC15F389
    <<200,19,91,139,97,190,239,116>>,  \* 74EFBE618B5B13C8
    <<29,62,39,20,183,130,220,172>>,  \* ACDC82B714273E1D
    <<23,157,25,3,224,191,64,221>>,  \* DD40BFE003199D17
    <<248,97,224,231,87,146,233,55>>,  \* 37E99257E7E061F8
    <<170,90,119,4,105,98,82,250>>,  \* FA52626904775AAA
    <<249,86,61,70,58,246,187,139>>,  \* 8BBBF63A463D56F9
    <<100,110,162,67,21,63,1,240>>,  \* F0013F1543A26E64
    <<152,200,158,135,159,126,48,168>>,  \* A8307E9F879EC898
    <<204,119,1,21,164,39,76,204>>,  \* CC4C27A4150177CC
    <<72,51,29,202,44,47,67,27>>,  \* 1B432F2CCA1D3348
    <<19,160,111,159,143,31,29,222>>,  \* DE1D1F8F9F6FA013
    <<214,221,167,71,160,2,102,96>>,  \* 606602A047A7DDD6
    <<199,178,28,204,100,171,55,210>>,  \* D237AB64CC1CB2C7
    <<211,209,252,37,114,142,147,155>>,  \* 9B938E7225FCD1D3
    <<118,244,15,142,112,3,78,236>>,  \* EC4E03708E0FF476
    <<45,193,3,61,218,251,178,254>>,  \* FEB2FBDA3D03C12D
    <<154,136,67,238,210,206,11,174>>,  \* AE0BCED2EE43889A
    <<67,79,251,235,35,137,203,34>>,  \* 22CB8923EBFB4F43
    <<109,57,247,60,1,13,54,105>>,  \* 69360D013CF7396D
    <<34,224,212,210,2,54,94,133>>,  \* 855E3602D2D4E022
    <<76,120,31,208,186,5,56,7>>,  \* 073805BAD01F784C
    <<70,245,82,56,19,122,225,51>>,  \* 33E17A133852F546
    <<56,182,199,138,5,116,72,223>>,  \* DF4874058AC7B638
    <<74,161,138,103,156,178,146,186>>,  \* BA92B29C678AA14A
    <<205,173,250,108,199,159,232,12>>,  \* 0CE89FC76CFAADCD
    <<52,158,51,8,9,78,157,95>>,  \* 5F9D4E0908339E34
    <<185,35,89,31,41,233,175,241>>,  \* F1AFE9291F5923B9
    <<95,38,74,15,246,128,52,110>>,  \* 6E3480F60F4A265F
    <<28,132,155,178,42,58,191,238>>,  \* EEBF3A2AB29B841C
    <<173,180,145,143,168,56,25,226>>,  \* E21938A88F91B4AD
    <<195,211,198,69,248,239,223,87>>,  \* 57DFEFF845C6D3C3
    <<242,170,44,246,11,107,0,47>>,  \* 2F006B0BF62CAAF2
    <<120,238,117,111,239,121,244,98>>,  \* 62F479EF6F75EE78
    <<169,22,137,28,212,90,165,17>>,  \* 11A55AD41C8916A9
    <<83,212,254,132,144,210,41,242>>,  \* F229D29084FED453
    <<230,0,176,22,123,194,241,66>>,  \* 42F1C27B16B000E6
    <<116,192,35,152,116,118,31,43>>,  \* 2B1F76749823C074
    <<96,83,116,194,163,236,118,75>>,  \* 4B76ECA3C2745360
    <<189,145,22,185,99,244,152,140>>,  \* 8C98F463B91691BD
    <<106,230,173,241,60,201,188,20>>,  \* 14BCC93CF1ADE66A
    <<151,131,69,109,62,33,133,136>>,  \* 8885213E6D458397
    <<17,71,77,39,240,125,23,142>>,  \* 8E177DF0274D4711
    <<81,41,63,80,181,115,155,180>>,  \* B49B73B5503F2951
    <<107,107,249,195,104,129,22,16>>,  \* 10168168C3F96B6B
    <<174,176,202,99,59,150,61,14>>,  \* 0E3D963B63CAB0AE
    <<20,219,161,85,86,75,252,141>>,  \* 8DFC4B5655A1DB14
    <<92,222,20,110,53,241,137,247>>,  \* F789F1356E14DE5C
    <<193,218,81,78,175,104,62,104>>,  \* 683E68AF4E51DAC1
    <<217,15,75,141,157,79,168,201>>,  \* C9A84F9D8D4B0FD9
    <<209,249,160,82,63,224,145,54>>,  \* 3691E03F52A0F9D1
    <<128,142,135,225,70,110,216,94>>,  \* 5ED86E46E1878E80
    <<80,113,208,153,14,26,113,60>>,  \* 3C711A0E99D07150
    <<16,147,78,12,178,101,8,90>>,  \* 5A0865B20C4E9310
    <<46,104,240,228,31,252,251,86>>,  \* 56FBFC1FE4F0682E
    <<155,223,94,16,227,93,141,234>>,  \* EA8D5DE3105EDF9B
    <<122,24,121,35,177,253,171,113>>,  \* 71ABFDB12379187A
    <<156,123,231,190,225,157,185,46>>,  \* 2EB99DE1BEE77B9C
    <<35,69,207,51,234,192,236,33>>,  \* 21ECC0EA33CF4523
    <<161,199,5,24,82,215,164,89>>,  \* 59A4D7521805C7A1
    <<114,124,174,86,235,245,150,56>>,  \* 3896F5EB56AE7C72
    <<220,117,143,177,61,143,99,170>>,  \* AA638F3DB18F75DC
    <<142,128,233,171,141,53,57,159>>,  \* 9F39358DABE9808E
    <<172,114,11,192,145,250,222,183>>,  \* B7DEFA91C00B72AC
    <<146,45,73,98,253,65,85,107>>,  \* 6B5541FD62492D92
    <<91,77,46,249,232,222,198,109>>,  \* 6DC6DEE8F92E4D5B
    <<126,234,190,196,171,87,63,53>>,  \* 353F57ABC4BEEA7E
    <<206,144,86,218,214,105,87,115>>,  \* 735769D6DA5690CE
    <<132,20,57,66,166,74,35,10>>,  \* 0A234AA642391484
    <<157,13,248,40,128,80,249,246>>,  \* F6F9508028F80D9D
    <<21,242,179,122,162,25,227,184>>,  \* B8E319A27AB3F215
    <<77,26,52,81,17,156,173,49>>,  \* 31AD9C1151341A4D
    <<5,88,239,123,165,34,60,119>>,  \* 773C22A57BEF5805
    <<51,134,150,7,26,86,199,69>>,  \* 45C7561A07968633
    <<54,190,157,36,158,218,19,249>>,  \* F913DA9E249DBE36
    <<104,76,166,120,155,45,101,218>>,  \* DA652D9B78A64C68
    <<239,52,195,59,127,169,39,76>>,  \* 4C27A97F3BC334EF
    <<244,23,107,230,32,18,98,118>>,  \* 76621220E66B17F4
    <<11,125,205,154,137,67,119,150>>,  \* 967743899ACD7D0B
    <<130,103,237,224,202,91,238,243>>,  \* F3EE5BCAE0ED6782
    <<252,121,200,0,54,117,159,64>>,  \* 409F753600C879FC
    <<182,109,146,181,57,154,208,6>>,  \* 06D09A39B5926DB6
    <<136,197,122,49,176,174,131,111>>,  \* 6F83AEB0317AC588
    <<33,31,56,134,74,202,230,1>>,  \* 01E6CA4A86381F21
    <<37,48,159,209,98,52,255,102>>,  \* 66FF3462D19F3025
    <<251,59,253,221,36,124,32,114>>,  \* 72207C24DDFD3BFB
    <<235,226,236,226,211,182,246,74>>,  \* 4AF6B6D3E2ECE2EB
    <<222,8,234,199,190,77,153,156>>,  \* 9C994DBEC7EA08DE
    <<196,139,154,176,151,229,172,73>>,  \* 49ACE597B09A8BC4
    <<186,151,7,207,102,71,140,179>>,  \* B38C4766CF0797BA
    <<117,42,124,197,115,147,27,19>>,  \* 131B9373C57C2A75
    <<88,30,147,97,206,44,130,177>>,  \* B1822CCE61931E58
    <<12,28,186,9,185,85,117,157>>,  \* 9D7555B909BA1C0C
    <<210,17,125,147,221,175,127,18>>,  \* 127FAFDD937D11D2
    <<228,146,109,198,173,59,218,41>>,  \* 29DA3BADC66D92E4
    <<188,236,194,84,113,213,193,162>>,  \* A2C1D57154C2ECBC
    <<36,254,246,130,77,19,197,88>>,  \* 58C5134D82F6FE24
    <<79,39,98,91,81,227,58,28>>,  \* 1C3AE3515B62274F
    <<38,129,203,1,46,200,7,233>>,  \* E907C82E01CB8126
    <<203,127,227,19,25,9,237,248>>,  \* F8ED091913E37FCB
    <<201,70,0,200,249,216,73,50>>,  \* 3249D8F9C80046C9
    <<99,251,136,227,237,155,207,128>>,  \* 80CF9BEDE388FB63
    <<158,241,108,17,154,83,129,24>>,  \* 1881539A116CF19E
    <<87,36,213,107,247,243,3,81>>,  \* 5103F3F76BD52457
    <<168,247,71,174,245,230,183,21>>,  \* 15B7E6F5AE47F7A8
    <<207,156,126,212,222,198,215,219>>,  \* DBD7C6DED47E9CCF
    <<26,187,40,2,65,92,229,68>>,  \* 44E55C410228BB1A
    <<153,78,219,94,37,212,71,182>>,  \* B647D4255EDB4E99
    <<48,252,170,184,43,136,17,93>>,  \* 5D11882BB8AAFC30
    <<42,33,211,41,187,139,9,245>>,  \* F5098BBB29D3212A
    <<179,150,2,233,20,234,181,143>>,  \* 8FB5EA14E90296B3
    <<90,2,221,87,33,148,123,103>>,  \* 677B942157DD025A
    <<181,172,144,163,192,231,88,251>>,  \* FB58E7C0A390ACB5
    <<1,74,189,131,76,103,211,137>>,  \* 89D3674C83BD4A01
    <<59,185,243,75,223,164,45,158>>,  \* 9E2DA4DF4BF3B93B
    <<41,72,171,140,50,30,196,252>>,  \* FCC41E328CAB4829
    <<82,44,88,186,150,140,243,3>>,  \* 03F38C96BA582C52
    <<178,93,216,127,189,189,209,202>>,  \* CAD1BDBD7FD85DB2
    <<131,174,130,96,193,66,180,187>>,  \* BBB442C16082AE83
    <<176,154,218,165,107,232,95,185>>,  \* B95FE86BA5DA9AB0
    <<63,169,113,55,103,4,46,178>>,  \* B22E04673771A93F
    <<216,82,49,73,201,88,83,132>>,  \* 845358C9493152D8
    <<30,84,180,151,134,72,42,190>>,  \* BE2A488697B4541E
    <<102,105,142,211,45,220,162,149>>,  \* 95A2DC2DD38E6966
    <<43,133,60,146,172,17,44,192>>,  \* C02C11AC923C852B
    <<123,168,242,13,153,177,136,35>>,  \* 2388B1990DF2A87B
    <<190,55,79,27,250,8,128,124>>,  \* 7C8008FA1B4F37BE
    <<3,229,84,77,200,208,112,31>>,  \* 1F70D0C84D54E503
    <<212,87,206,126,236,173,144,84>>,  \* 5490ADEC7ECE57D4
    <<58,58,6,217,39,60,43,0>>,  \* 002B3C27D9063A3A
    <<191,162,48,128,132,163,174,126>>,  \* 7EAEA3848030A2BF
    <<192,3,32,237,109,50,2,198>>,  \* C602326DED2003C0
    <<134,64,169,105,125,40,167,131>>,  \* 83A7287D69A94086
    <<138,122,245,48,203,95,122,197>>,  \* C57A5FCB30F57A8A
    <<121,231,235,121,228,68,104,181>>,  \* B56844E479EBE779
    <<233,188,220,5,15,180,115,163>>,  \* A373B40F05DCBCE9
    <<226,14,87,136,110,120,26,215>>,  \* D71A786E88570EE2
    <<160,246,232,189,205,186,156,135>>,  \* 879CBACDBDE8F6A0
    <<47,163,100,193,188,209,106,151>>,  \* 976AD1BCC164A32F
    <<139,215,102,150,94,226,33,171>>,  \* AB21E25E9666D78B
    <<60,195,229,229,170,99,16,144>>,  \* 901063AAE5E5C33C
    <<144,141,105,72,68,179,24,152>>,  \* 9818B34448698D90
    <<187,138,30,62,174,135,100,227>>,  \* E36487AE3E1E8ABB
    <<180,220,59,137,49,249,189,175>>,  \* AFBDF931893BDCB4
    <<25,213,187,95,220,160,69,99>>,  \* 6345A0DC5FBBD519
    <<202,101,148,155,38,254,40,134>>,  \* 8628FE269B9465CA
    <<236,81,156,63,96,1,93,30>>,  \* 1E5D01603F9C51EC
    <<183,73,80,161,6,64,228,77>>,  \* 4DE44006A15049B7
    <<177,203,118,247,229,112,108,191>>,  \* BF6C70E5F776CBB1
    <<237,43,85,239,242,24,18,65>>,  \* 411218F2EF552BED
    <<163,54,90,112,8,7,12,203>>,  \* CB0C0708705A36A3
    <<68,96,152,79,117,20,77,231>>,  \* E74D14754F986044
    <<14,40,168,14,67,217,86,205>>,  \* CD56D9430EA8280E
    <<101,80,95,83,215,145,37,193>>,  \* C12591D7535F5065
    <<150,239,10,114,241,35,50,200>>,  \* C83223F1720AEF96
    <<31,165,99,115,111,57,160,195>>  \* C3A0396F7363A51F
  >>
\* --------------------------------------------------- compression core

A == <<239,205,171,137,103,69,35,1>>     \* 0x0123456789ABCDEF
B == <<16,50,84,118,152,186,220,254>>    \* 0xFEDCBA9876543210
C == <<135,225,178,195,180,165,150,240>> \* 0xF096A5B4C3B2E187

KeyMaskLo == <<165,165,165,165,165,165,165,165>> \* 0xA5A5A5A5A5A5A5A5
KeyMaskHi == <<239,205,171,137,103,69,35,1>>     \* 0x0123456789ABCDEF

\* The second half of a round, c already holding c ^ x: the S-box lookups
\* on the bytes of c and the multiplication; the result is <<a, b, c>>.
round_mix(a, b, c, mul) ==
  <<SubW(a, XorW(XorW(T1[c[1] + 1], T2[c[3] + 1]),
                 XorW(T3[c[5] + 1], T4[c[7] + 1]))),
    MulW(AddW(b, XorW(XorW(T4[c[2] + 1], T3[c[4] + 1]),
                      XorW(T2[c[6] + 1], T1[c[8] + 1]))), mul),
    c>>

\* round!(a, b, c, x, mul): one round on registers (a, b, c) with message
\* word x and multiplier mul; the result is the new <<a, b, c>>.
round(a, b, c, x, mul) == round_mix(a, b, XorW(c, x), mul)

\* The registers in the order of their roles in the next round:
\* (a, b, c) -> (b, c, a).
rotate(r) == <<r[2], r[3], r[1]>>

\* Rounds i..8 of a pass: round i uses word x[i], and r holds the registers
\* in the order of their roles in round i.  (The test Len(r) = 3 makes TLC
\* evaluate the registers round by round instead of building one nested
\* expression of 24 rounds.)
RECURSIVE pass_from(_, _, _, _)
pass_from(r, x, mul, i) ==
  IF i > 8 \/ Len(r) # 3 THEN r
  ELSE pass_from(rotate(round(r[1], r[2], r[3], x[i], mul)), x, mul, i + 1)

\* pass!(a, b, c, x, mul): 8 rounds; the result is <<a, b, c>> by name.  After
\* 8 rotations the roles stand at (c, a, b): one more rotation gives
\* (a, b, c) back.
pass(a, b, c, x, mul) == rotate(pass_from(<<a, b, c>>, x, mul, 1))

\* key_schedule!(x): 16 assignments to the words x[0..7] (here x[1..8]), each
\* written as the block after it.

\* x[0] -= x[7] ^ 0xA5A5A5A5A5A5A5A5
ks01(x) == [x EXCEPT ![1] = SubW(x[1], XorW(x[8], KeyMaskLo))]

\* x[1] ^= x[0]
ks02(x) == [x EXCEPT ![2] = XorW(x[2], x[1])]

\* x[2] += x[1]
ks03(x) == [x EXCEPT ![3] = AddW(x[3], x[2])]

\* x[3] -= x[2] ^ ((!x[1]) << 19)
ks04(x) == [x EXCEPT ![4] = SubW(x[4], XorW(x[3], ShlW(NotW(x[2]), 19)))]

\* x[4] ^= x[3]
ks05(x) == [x EXCEPT ![5] = XorW(x[5], x[4])]

\* x[5] += x[4]
ks06(x) == [x EXCEPT ![6] = AddW(x[6], x[5])]

\* x[6] -= x[5] ^ ((!x[4]) >> 23)
ks07(x) == [x EXCEPT ![7] = SubW(x[7], XorW(x[6], ShrW(NotW(x[5]), 23)))]

\* x[7] ^= x[6]
ks08(x) == [x EXCEPT ![8] = XorW(x[8], x[7])]

\* x[0] += x[7]
ks09(x) == [x EXCEPT ![1] = AddW(x[1], x[8])]

\* x[1] -= x[0] ^ ((!x[7]) << 19)
ks10(x) == [x EXCEPT ![2] = SubW(x[2], XorW(x[1], ShlW(NotW(x[8]), 19)))]

\* x[2] ^= x[1]
ks11(x) == [x EXCEPT ![3] = XorW(x[3], x[2])]

\* x[3] += x[2]
ks12(x) == [x EXCEPT ![4] = AddW(x[4], x[3])]

\* x[4] -= x[3] ^ ((!x[2]) >> 23)
ks13(x) == [x EXCEPT ![5] = SubW(x[5], XorW(x[4], ShrW(NotW(x[3]), 23)))]

\* x[5] ^= x[4]
ks14(x) == [x EXCEPT ![6] = XorW(x[6], x[5])]

\* x[6] += x[5]
ks15(x) == [x EXCEPT ![7] = AddW(x[7], x[6])]

\* x[7] -= x[6] ^ 0x0123456789ABCDEF
ks16(x) == [x EXCEPT ![8] = SubW(x[8], XorW(x[7], KeyMaskHi))]

key_schedule(x) ==
  ks16(ks15(ks14(ks13(ks12(ks11(ks10(ks09(
  ks08(ks07(ks06(ks05(ks04(ks03(ks02(ks01(x))))))))))))))))

\* The steps of compress!, each on s = [r |-> <<a, b, c>>, x |-> data].
\* Pass 1: registers in the roles (a, b, c), multiplier 5.
pass1(s) == [s EXCEPT !.r = pass(s.r[1], s.r[2], s.r[3], s.x, 5)]

sched(s) == [s EXCEPT !.x = key_schedule(s.x)]

\* Pass 2: registers in the roles (c, a, b), multiplier 7; pass returns
\* <<c, a, b>>.
pass2(s) == [s EXCEPT !.r = rotate(pass(s.r[3], s.r[1], s.r[2], s.x, 7))]

\* Pass 3: registers in the roles (b, c, a), multiplier 9; pass returns
\* <<b, c, a>>.
pass3(s) == [s EXCEPT !.r = rotate(rotate(pass(s.r[2], s.r[3], s.r[1], s.x, 9)))]

\* a ^= sa, b -= sb, c += sc
feed_forward(r, sa, sb, sc) ==
  <<XorW(r[1], sa), SubW(r[2], sb), AddW(r[3], sc)>>

\* compress!(data, a, b, c): three passes with the key schedule between
\* them and the feed-forward at the end.
compress(data, a, b, c) ==
  feed_forward(
    pass3(sched(pass2(sched(pass1([r |-> <<a, b, c>>, x |-> data]))))).r,
    a, b, c)

\* read_u64v_le: 64 bytes as 8 words, word k from bytes 8k..8k+7.
read_u64v_le(block) ==
  <<SubSeq(block, 1, 8), SubSeq(block, 9, 16), SubSeq(block, 17, 24),
    SubSeq(block, 25, 32), SubSeq(block, 33, 40), SubSeq(block, 41, 48),
    SubSeq(block, 49, 56), SubSeq(block, 57, 64)>>

\* As write_u64v_le, each word most significant byte first.
RECURSIVE write_u64v_be(_)
write_u64v_be(words) ==
  IF words = <<>> THEN <<>>
  ELSE <<Head(words)[8], Head(words)[7], Head(words)[6], Head(words)[5],
         Head(words)[4], Head(words)[3], Head(words)[2], Head(words)[1]>>
       \o write_u64v_be(Tail(words))

\* write_u64v_le: the words' bytes, each word least significant byte first.
RECURSIVE write_u64v_le(_)
write_u64v_le(words) ==
  IF words = <<>> THEN <<>> ELSE Head(words) \o write_u64v_le(Tail(words))

\* As TigerState::process_block, the registers never stored back to self.0.
TigerState_process_block_not_stored(st, block) == st

\* TigerState::process_block
TigerState_process_block(st, block) ==
  compress(read_u64v_le(block), st[1], st[2], st[3])

\* The test cases of tests::basic_test: the input bytes and the expected
\* digest (the hex string of the test, byte by byte).
test_cases ==
  <<
    \* '' -> 4441BE75F6018773C206C22745374B924AA8313FEF919F41
    [input |-> <<>>,
     expected |-> <<68,65,190,117,246,1,135,115,194,6,194,39,69,55,75,146,74,168,49,63,
                  239,145,159,65>>],
    \* 'a' -> 67E6AE8E9E968999F70A23E72AEAA9251CBC7C78A7916636
    [input |-> <<97>>,
     expected |-> <<103,230,174,142,158,150,137,153,247,10,35,231,42,234,169,37,28,188,
                  124,120,167,145,102,54>>],
    \* 'abc' -> F68D7BC5AF4B43A06E048D7829560D4A9415658BB0B1F3BF
    [input |-> <<97,98,99>>,
     expected |-> <<246,141,123,197,175,75,67,160,110,4,141,120,41,86,13,74,148,21,101,
                  139,176,177,243,191>>],
    \* 'message digest' -> E29419A1B5FA259DE8005E7DE75078EA81A542EF2552462D
    [input |-> <<109,101,115,115,97,103,101,32,100,105,103,101,115,116>>,
     expected |-> <<226,148,25,161,181,250,37,157,232,0,94,125,231,80,120,234,129,165,
                  66,239,37,82,70,45>>],
    \* 'abcdefghijklmnopqrstuvwxyz' -> F5B6B6A78C405C8547E91CD8624CB8BE83FC804A474488FD
    [input |-> <<97,98,99,100,101,102,103,104,105,106,107,108,109,110,111,112,113,
               114,115,116,117,118,119,120,121,122>>,
     expected |-> <<245,182,182,167,140,64,92,133,71,233,28,216,98,76,184,190,131,252,
                  128,74,71,68,136,253>>],
    \* 'abcdbcdecdefdefgefghfghighijhijkijkljklmklmnlmnomnopnopq' -> A6737F3997E8FBB63D20D2DF88F86376B5FE2D5CE36646A9
    [input |-> <<97,98,99,100,98,99,100,101,99,100,101,102,100,101,102,103,101,102,
               103,104,102,103,104,105,103,104,105,106,104,105,106,107,105,106,107,
               108,106,107,108,109,107,108,109,110,108,109,110,111,109,110,111,112,
               110,111,112,113>>,
     expected |-> <<166,115,127,57,151,232,251,182,61,32,210,223,136,248,99,118,181,254,
                  45,92,227,102,70,169>>],
    \* 'ABCDEFGHIJKLMNOPQRSTUVWXYZabcdefghijklmnopqrstuvwxyz0123456789' -> EA9AB6228CEE7B51B77544FCA6066C8CBB5BBAE6319505CD
    [input |-> <<65,66,67,68,69,70,71,72,73,74,75,76,77,78,79,80,81,82,83,84,85,86,
               87,88,89,90,97,98,99,100,101,102,103,104,105,106,107,108,109,110,
               111,112,113,114,115,116,117,118,119,120,121,122,48,49,50,51,52,53,
               54,55,56,57>>,
     expected |-> <<234,154,182,34,140,238,123,81,183,117,68,252,166,6,108,140,187,91,
                  186,230,49,149,5,205>>],
    \* '12345678901234567890123456789012345678901234567890123456789012345678901234567890' -> D85278115329EBAA0EEC85ECDC5396FDA8AA3A5820942FFF
    [input |-> <<49,50,51,52,53,54,55,56,57,48,49,50,51,52,53,54,55,56,57,48,49,50,
               51,52,53,54,55,56,57,48,49,50,51,52,53,54,55,56,57,48,49,50,51,52,
               53,54,55,56,57,48,49,50,51,52,53,54,55,56,57,48,49,50,51,52,53,54,
               55,56,57,48,49,50,51,52,53,54,55,56,57,48>>,
     expected |-> <<216,82,120,17,83,41,235,170,14,236,133,236,220,83,150,253,168,170,
                  58,88,32,148,47,255>>]
  >>

\* --------------------------------------------------------- block buffer
\* BlockBuffer<U64> of the block-buffer crate, as Tiger uses it: a 64-byte
\* array `buffer` and the number `pos` of pending bytes at its start.  Each
\* operation returns the new buffer as `bb` and, as `out`, the blocks it
\* handed to its callback, in the order of the calls.

BlockSize == 64

Zeros(n) == [i \in 1..n |-> 0]

\* BlockBuffer::default()
BlockBuffer_default == [buffer |-> Zeros(BlockSize), pos |-> 0]

\* The whole blocks at the start of `input` (the `while` loop of
\* BlockBuffer::input).
RECURSIVE WholeBlocks(_)
WholeBlocks(input) ==
  IF Len(input) >= BlockSize
  THEN <<SubSeq(input, 1, BlockSize)>>
       \o WholeBlocks(SubSeq(input, BlockSize + 1, Len(input)))
  ELSE <<>>

\* buffer[from .. from + Len(src)) = src   (0-based `from`)
copy_from_slice(buffer, from, src) ==
  [i \in 1..Len(buffer) |->
     IF i > from /\ i <= from + Len(src) THEN src[i - from] ELSE buffer[i]]

\* As BlockBuffer::input, the bytes left over copied to the start of the
\* buffer instead of after the pending ones.
BlockBuffer_input_tail_at_start(bb, input) ==
  LET rem   == BlockSize - bb.pos
      fill  == bb.pos # 0 /\ Len(input) >= rem
      buf1  == IF fill
               THEN copy_from_slice(bb.buffer, bb.pos, SubSeq(input, 1, rem))
               ELSE bb.buffer
      pos1  == IF fill THEN 0 ELSE bb.pos
      in1   == IF fill THEN SubSeq(input, rem + 1, Len(input)) ELSE input
      out1  == IF fill THEN <<buf1>> ELSE <<>>
      whole == WholeBlocks(in1)
      in2   == SubSeq(in1, BlockSize * Len(whole) + 1, Len(in1))
  IN [bb  |-> [buffer |-> copy_from_slice(buf1, 0, in2),
               pos    |-> pos1 + Len(in2)],
      out |-> out1 \o whole]

\* The whole blocks at the start of `input` but the last one when nothing
\* follows it (the `while` loop of BlockBuffer::input_lazy).
RECURSIVE WholeBlocksLazy(_)
WholeBlocksLazy(input) ==
  IF Len(input) > BlockSize
  THEN <<SubSeq(input, 1, BlockSize)>>
       \o WholeBlocksLazy(SubSeq(input, BlockSize + 1, Len(input)))
  ELSE <<>>

\* BlockBuffer::input_lazy in the place of BlockBuffer::input: a complete
\* block stays in the buffer until more input arrives.
BlockBuffer_input_lazy(bb, input) ==
  LET rem   == BlockSize - bb.pos
      fill  == bb.pos # 0 /\ Len(input) > rem
      buf1  == IF fill
               THEN copy_from_slice(bb.buffer, bb.pos, SubSeq(input, 1, rem))
               ELSE bb.buffer
      pos1  == IF fill THEN 0 ELSE bb.pos
      in1   == IF fill THEN SubSeq(input, rem + 1, Len(input)) ELSE input
      out1  == IF fill THEN <<buf1>> ELSE <<>>
      whole == WholeBlocksLazy(in1)
      in2   == SubSeq(in1, BlockSize * Len(whole) + 1, Len(in1))
  IN [bb  |-> [buffer |-> copy_from_slice(buf1, pos1, in2),
               pos    |-> pos1 + Len(in2)],
      out |-> out1 \o whole]

\* BlockBuffer::input(&mut self, input, f)
BlockBuffer_input(bb, input) ==
  LET rem   == BlockSize - bb.pos
      fill  == bb.pos # 0 /\ Len(input) >= rem
      \* the pending bytes completed to a block by the first `rem` bytes
      buf1  == IF fill
               THEN copy_from_slice(bb.buffer, bb.pos, SubSeq(input, 1, rem))
               ELSE bb.buffer
      pos1  == IF fill THEN 0 ELSE bb.pos
      in1   == IF fill THEN SubSeq(input, rem + 1, Len(input)) ELSE input
      out1  == IF fill THEN <<buf1>> ELSE <<>>
      \* whole blocks are passed on without being copied into the buffer
      whole == WholeBlocks(in1)
      in2   == SubSeq(in1, BlockSize * Len(whole) + 1, Len(in1))
  IN [bb  |-> [buffer |-> copy_from_slice(buf1, pos1, in2),
               pos    |-> pos1 + Len(in2)],
      out |-> out1 \o whole]

\* The first padding byte of the Tiger of 1996 (0x01).
PadMarkerTiger1 == 128 \div 128

\* The first padding byte written by BlockBuffer::digest_pad.
PadMarker == 128   \* 0x80

\* As BlockBuffer::digest_pad, the bytes after the marker not zeroed.
BlockBuffer_digest_pad_not_zeroed(bb, up_to) ==
  LET full  == bb.pos = BlockSize
      pos0  == IF full THEN 0 ELSE bb.pos
      out0  == IF full THEN <<bb.buffer>> ELSE <<>>
      pos1  == pos0 + 1
      buf1  == [i \in 1..BlockSize |->
                  IF i = pos1 THEN PadMarker ELSE bb.buffer[i]]
      spill == BlockSize - pos1 < up_to
  IN [bb  |-> [buffer |-> IF spill
                          THEN [i \in 1..BlockSize |->
                                  IF i <= pos1 THEN 0 ELSE buf1[i]]
                          ELSE buf1,
               pos    |-> pos1],
      out |-> IF spill THEN out0 \o <<buf1>> ELSE out0]

\* As BlockBuffer::digest_pad, a second block also when exactly `up_to`
\* bytes are left.
BlockBuffer_digest_pad_off_by_one(bb, up_to) ==
  LET full  == bb.pos = BlockSize
      pos0  == IF full THEN 0 ELSE bb.pos
      out0  == IF full THEN <<bb.buffer>> ELSE <<>>
      pos1  == pos0 + 1
      buf1  == [i \in 1..BlockSize |->
                  IF i <= pos0 THEN bb.buffer[i]
                  ELSE IF i = pos1 THEN PadMarker ELSE 0]
      spill == BlockSize - pos1 <= up_to
  IN [bb  |-> [buffer |-> IF spill
                          THEN [i \in 1..BlockSize |->
                                  IF i <= pos1 THEN 0 ELSE buf1[i]]
                          ELSE buf1,
               pos    |-> pos1],
      out |-> IF spill THEN out0 \o <<buf1>> ELSE out0]

\* BlockBuffer::digest_pad(&mut self, up_to, f): the marker byte, zeros to
\* the end of the block, and one more block when fewer than `up_to` bytes
\* are left.
BlockBuffer_digest_pad(bb, up_to) ==
  LET full  == bb.pos = BlockSize
      pos0  == IF full THEN 0 ELSE bb.pos
      out0  == IF full THEN <<bb.buffer>> ELSE <<>>
      pos1  == pos0 + 1
      buf1  == [i \in 1..BlockSize |->
                  IF i <= pos0 THEN bb.buffer[i]
                  ELSE IF i = pos1 THEN PadMarker ELSE 0]
      spill == BlockSize - pos1 < up_to
  IN [bb  |-> [buffer |-> IF spill
                          THEN [i \in 1..BlockSize |->
                                  IF i <= pos1 THEN 0 ELSE buf1[i]]
                          ELSE buf1,
               pos    |-> pos1],
      out |-> IF spill THEN out0 \o <<buf1>> ELSE out0]

\* byteorder::LE::write_u64: the 8 bytes of n, least significant first.
LE_write_u64(n) == <<n[1], n[2], n[3], n[4], n[5], n[6], n[7], n[8]>>

\* BlockBuffer::len64_padding::<LE, _>(&mut self, data_len, f)
BlockBuffer_len64_padding(bb, data_len) ==
  LET p    == BlockBuffer_digest_pad(bb, 8)
      last == copy_from_slice(p.bb.buffer, BlockSize - 8, LE_write_u64(data_len))
  IN [bb  |-> [buffer |-> last, pos |-> 0],
      out |-> p.out \o <<last>>]

\* BlockBuffer::reset(&mut self)
BlockBuffer_reset(bb) == [bb EXCEPT !.pos = 0]

\* --------------------------------------------------------- digest engine
\* struct Tiger { buffer, len, state }

\* The callback |blk| self_state.process_block(blk), called once per block
\* of `out`, in order.
RECURSIVE process_blocks(_, _)
process_blocks(st, out) ==
  IF out = <<>> \/ Len(st) # 3 THEN st
  ELSE process_blocks(TigerState_process_block(st, Head(out)), Tail(out))

\* TigerState::new
TigerState_new == <<A, B, C>>

\* Tiger::new
Tiger_new ==
  [buffer |-> BlockBuffer_default, len |-> U64(0), state |-> TigerState_new]

\* Tiger::process_block(&mut self, input)
Tiger_process_block(h, input) ==
  LET r == BlockBuffer_input(h.buffer, input)
  IN [h EXCEPT !.buffer = r.bb, !.state = process_blocks(h.state, r.out)]

\* (input.len() << 3) as u64: the shift is done in usize, whose width is the
\* target's, so on a 32-bit target the bits above bit 31 are lost before the
\* cast.  n is the usize input.len(), zero-extended.
shl3_as_u64(n, usize_bits) ==
  IF usize_bits = 64 THEN ShlW(n, 3)
  ELSE <<ShlW(n, 3)[1], ShlW(n, 3)[2], ShlW(n, 3)[3], ShlW(n, 3)[4], 0, 0, 0, 0>>

\* self.len += (input.len() << 3) as u64, where the addition wraps.
len_add(len, n, usize_bits) == AddW(len, shl3_as_u64(n, usize_bits))

\* The addition of that statement overflows u64: a panic in a build with
\* overflow checks (the debug profile), a silent wrap without them.
len_add_overflows(len, n, usize_bits) ==
  LessW(len_add(len, n, usize_bits), len)

\* <Tiger as Input>::input, for a slice far shorter than 2^29 bytes (where
\* the targets agree on the shift) and a counter far from 2^64.
input(h, bytes) ==
  [Tiger_process_block(h, bytes) EXCEPT
     !.len = len_add(h.len, U64(Len(bytes)), 64)]

\* Tiger::finalize(&mut self)
Tiger_finalize(h) ==
  LET r == BlockBuffer_len64_padding(h.buffer, h.len)
  IN [h EXCEPT !.buffer = r.bb, !.state = process_blocks(h.state, r.out)]

\* The end of fixed_result: the state words written to the output.
output_of(h) == write_u64v_le(<<h.state[1], h.state[2], h.state[3]>>)

\* <Tiger as FixedOutput>::fixed_result(mut self)
fixed_result(h) == output_of(Tiger_finalize(h))

\* As reset, the length counter kept.
reset_len_kept(h) ==
  [buffer |-> BlockBuffer_reset(h.buffer), len |-> h.len, state |-> <<A, B, C>>]

\* <Tiger as Reset>::reset
reset(h) ==
  [buffer |-> BlockBuffer_reset(h.buffer), len |-> U64(0), state |-> <<A, B, C>>]

\* tests::tiger_hash: a fresh engine, one input call, the result.
tiger_hash(bytes) == fixed_result(input(Tiger_new, bytes))

\* ------------------------------------------------------------- the model

\* The most bytes fed to one engine in its lifetime.
MaxTotal == 130

\* The most reset() calls on one engine.
MaxResets == 1

\* The most input() calls in the model of the length counter.
MaxLenCalls == 3

\* The message of the engine's k-th session (the calls between new() or a
\* reset() and the next reset() or the result): within any 250 bytes all
\* bytes differ, and the sessions' bytes differ place by place.
Pattern(k, n) == [i \in 1..n |-> (7 * i + 11 + 97 * k) % 251]

RECURSIVE TestInputs(_)
TestInputs(k) ==
  IF k = 0 THEN {} ELSE {test_cases[k].input} \cup TestInputs(k - 1)

\* The messages a caller hashes.
Messages == {Pattern(0, MaxTotal)} \cup TestInputs(Len(test_cases))

\* The lengths of the pieces a caller passes to one input() call (besides
\* the whole rest of the message).
Lens == {0, 1, 64, 65, 129}

\* The same where the engine is also reset.
LensR == {0, 31, 63, 64, 67, 130}

\* A build of the crate: the width of usize on the target, and whether
\* integer overflow is checked (debug profile) or wraps (release profile).
Builds == [usize_bits : {32, 64}, overflow_checks : BOOLEAN]

Release64 == [usize_bits |-> 64, overflow_checks |-> FALSE]

VARIABLES
  hasher,   \* the Tiger value: [buffer |-> [buffer, pos], len, state]
  pc,       \* "live": accepting input; "done": consumed by fixed_result;
            \* "panicked": an input() call panicked
  output,   \* what fixed_result returned (<<>> while live)
  msg,      \* the message the caller is hashing in this session
  fed,      \* how many bytes of msg have been passed to input()
  straddle, \* some input() call of the session completed a partly filled block
  blocks,   \* the blocks handed to TigerState::process_block in the session
  npad,     \* how many of them finalize handed over
  life,     \* bytes passed to input() since new()
  resets,   \* reset() calls since new()
  build,    \* the build the engine runs in
  total,    \* bytes passed to input() in the session, as a u64 (mod 2^64)
  ncalls    \* input() calls, counted in the model of the length counter only

vars ==
  <<hasher, pc, output, msg, fed, straddle, blocks, npad, life, resets,
    build, total, ncalls>>

\* The bytes fed in this session.
Stream == SubSeq(msg, 1, fed)

Fresh(m) ==
  /\ hasher = Tiger_new
  /\ pc = "live"
  /\ output = <<>>
  /\ msg = m
  /\ fed = 0
  /\ straddle = FALSE
  /\ blocks = <<>>
  /\ npad = 0
  /\ life = 0
  /\ resets = 0
  /\ build = Release64
  /\ total = U64(0)
  /\ ncalls = 0

Init == \E m \in Messages : Fresh(m)

\* let mut hasher = Tiger::new(), once the previous engine is consumed.
NewFor(m) ==
  /\ pc = "done"
  /\ hasher' = Tiger_new
  /\ pc' = "live"
  /\ output' = <<>>
  /\ msg' = m
  /\ fed' = 0
  /\ straddle' = FALSE
  /\ blocks' = <<>>
  /\ npad' = 0
  /\ life' = 0
  /\ resets' = 0
  /\ total' = U64(0)
  /\ UNCHANGED <<build, ncalls>>

New == \E m \in Messages : NewFor(m)

\* hasher.input(piece), piece being the next n bytes of the message.
InputPiece(n) ==
  /\ pc = "live"
  /\ fed + n <= Len(msg)
  /\ life + n <= MaxTotal
  /\ hasher' = input(hasher, SubSeq(msg, fed + 1, fed + n))
  /\ blocks' = blocks
               \o BlockBuffer_input(hasher.buffer,
                                    SubSeq(msg, fed + 1, fed + n)).out
  /\ straddle' = (straddle \/ (hasher.buffer.pos # 0
                                /\ n >= BlockSize - hasher.buffer.pos))
  /\ fed' = fed + n
  /\ life' = life + n
  /\ total' = AddW(total, U64(n))
  /\ UNCHANGED <<pc, output, msg, npad, resets, build, ncalls>>

Input == \E n \in Lens \cup {Len(msg) - fed} : InputPiece(n)

\* hasher.fixed_result(): self.finalize(), then the state written out.
Finalize ==
  /\ pc = "live"
  /\ hasher' = Tiger_finalize(hasher)
  /\ output' = output_of(hasher')
  /\ blocks' = blocks \o BlockBuffer_len64_padding(hasher.buffer, hasher.len).out
  /\ npad' = Len(BlockBuffer_len64_padding(hasher.buffer, hasher.len).out)
  /\ pc' = "done"
  /\ UNCHANGED <<msg, fed, straddle, life, resets, build, total, ncalls>>

Next == Input \/ Finalize \/ New

Spec == Init /\ [][Next]_vars

\* The engine with reset(): the sessions' messages are the patterns.
InitR == Fresh(Pattern(0, MaxTotal))

NewR == NewFor(Pattern(0, MaxTotal))

InputR == \E n \in LensR : InputPiece(n)

\* hasher.reset(), and the caller turns to the next message.
Reset ==
  /\ pc = "live"
  /\ resets < MaxResets
  /\ hasher' = reset(hasher)
  /\ msg' = Pattern(resets + 1, MaxTotal)
  /\ fed' = 0
  /\ straddle' = FALSE
  /\ blocks' = <<>>
  /\ resets' = resets + 1
  /\ total' = U64(0)
  /\ UNCHANGED <<pc, output, npad, life, build, ncalls>>

NextR == InputR \/ Reset \/ Finalize \/ NewR

SpecReset == InitR /\ [][NextR]_vars

\* ------------------------------------------- the length counter alone
\* The length counter and the number of pending bytes under input() and
\* reset(), for slices of any length the target allows, in every build.
\* The bytes' values enter neither, so the buffer's bytes and the state
\* words are not tracked here.

Pow2_29 == <<0, 0, 0, 32, 0, 0, 0, 0>>          \* 2^29
IsizeMax32 == <<255, 255, 255, 127, 0, 0, 0, 0>> \* 2^31 - 1
Pow2_32 == <<0, 0, 0, 0, 1, 0, 0, 0>>           \* 2^32
Pow2_60 == <<0, 0, 0, 0, 0, 0, 0, 16>>          \* 2^60
Pow2_61 == <<0, 0, 0, 0, 0, 0, 0, 32>>          \* 2^61

\* Slice lengths (usize, zero-extended): a slice is at most isize::MAX long.
SliceLens(usize_bits) ==
  {U64(0), U64(1), U64(64), Pow2_29, IsizeMax32}
  \cup (IF usize_bits = 64 THEN {Pow2_32, Pow2_60, Pow2_61} ELSE {})

Untracked == "untracked"

InitLen ==
  /\ hasher = [buffer |-> [buffer |-> Untracked, pos |-> 0],
               len |-> U64(0), state |-> Untracked]
  /\ pc = "live"
  /\ output = <<>>
  /\ msg = <<>>
  /\ fed = 0
  /\ straddle = FALSE
  /\ blocks = <<>>
  /\ npad = 0
  /\ life = 0
  /\ resets = 0
  /\ build \in Builds
  /\ total = U64(0)
  /\ ncalls = 0

\* hasher.input(slice) for a slice of n bytes: process_block leaves
\* (pos + n) mod 64 bytes pending, then the length statement runs.
InputLen ==
  /\ pc = "live"
  /\ ncalls < MaxLenCalls
  /\ \E n \in SliceLens(build.usize_bits) :
       /\ total' = AddW(total, n)
       /\ IF build.overflow_checks
             /\ len_add_overflows(hasher.len, n, build.usize_bits)
          THEN /\ pc' = "panicked"
               /\ hasher' = [hasher EXCEPT
                    !.buffer.pos = (hasher.buffer.pos + n[1]) % BlockSize]
          ELSE /\ pc' = pc
               /\ hasher' = [hasher EXCEPT
                    !.buffer.pos = (hasher.buffer.pos + n[1]) % BlockSize,
                    !.len = len_add(hasher.len, n, build.usize_bits)]
  /\ ncalls' = ncalls + 1
  /\ UNCHANGED <<output, msg, fed, straddle, blocks, npad, life, resets, build>>

ResetLen ==
  /\ pc = "live"
  /\ resets < MaxResets
  /\ hasher' = [hasher EXCEPT !.buffer.pos = 0, !.len = U64(0)]
  /\ total' = U64(0)
  /\ resets' = resets + 1
  /\ UNCHANGED <<pc, output, msg, fed, straddle, blocks, npad, life, build,
                 ncalls>>

NextLen == InputLen \/ ResetLen

SpecLen == InitLen /\ [][NextLen]_vars

\* ------------------------------------------------------------ the claims

\* The blocks' bytes, one block after the other.
RECURSIVE Flatten(_)
Flatten(bs) == IF bs = <<>> THEN <<>> ELSE Head(bs) \o Flatten(Tail(bs))

\* The state after compressing the blocks bs in order, from st.
RECURSIVE StateAfter(_, _)
StateAfter(st, bs) ==
  IF bs = <<>> \/ Len(st) # 3 THEN st
  ELSE StateAfter(compress(read_u64v_le(Head(bs)), st[1], st[2], st[3]),
                  Tail(bs))

\* The pending tail of the session's bytes: those after the last whole block.
Pending == SubSeq(Stream, fed - (fed % BlockSize) + 1, fed)

\* The bytes finalize handed to the compression.
Padded == Flatten(SubSeq(blocks, Len(blocks) - npad + 1, Len(blocks)))

\* C1: chunking invariance.  However the bytes of a message were split over
\* input() calls, the result is the digest of one fresh engine fed the same
\* bytes by a single input() call.
ChunkingInvariance == pc = "done" => output = tiger_hash(Stream)

\* C1 happens: a result after more than two blocks of bytes, fed by several
\* calls one of which completed a partly filled block.
ChunkingWitness == pc = "done" /\ straddle /\ fed > 2 * BlockSize

\* C2: reset equivalence.  After reset() the three fields have the values
\* new() gives them (as far as they can be observed: no pending bytes), and
\* the result of the session after a reset() is the digest of a fresh engine
\* fed that session's bytes alone.
ResetEquivalence ==
  /\ (pc = "live" /\ resets > 0 /\ fed = 0) =>
       /\ hasher.state = Tiger_new.state
       /\ hasher.buffer.pos = Tiger_new.buffer.pos
       /\ hasher.len = Tiger_new.len
  /\ (pc = "done" /\ resets > 0) => output = tiger_hash(Stream)

\* C2 happens: a result after a reset() that followed some input, and
\* input after the reset().
ResetWitness == pc = "done" /\ resets = 1 /\ fed > 0 /\ life > fed

\* C3, as claimed: the byte right after the session's bytes in what is
\* compressed is 0x01.
FirstPaddingByteIs01 == pc = "done" => Flatten(blocks)[fed + 1] = 1

\* C4: the padding.  The pending bytes are the tail of the session's bytes;
\* finalize compresses them followed by one marker byte, zeros up to a
\* length of 56 modulo 64, and the bit count 8 * fed as 8 little-endian
\* bytes; every block compressed, by input() or by finalize, is 64 bytes.
PaddingLayout ==
  /\ \A k \in 1..Len(blocks) : Len(blocks[k]) = 64
  /\ pc = "live" =>
       /\ hasher.buffer.pos = fed % 64
       /\ SubSeq(hasher.buffer.buffer, 1, hasher.buffer.pos) = Pending
  /\ pc = "done" =>
       /\ Len(Padded) % 64 = 0
       /\ \E z \in 0..63 :
            /\ (Len(Pending) + 1 + z) % 64 = 56
            /\ Padded = Pending \o <<Padded[Len(Pending) + 1]>> \o Zeros(z)
                        \o BytesOfNat(8 * fed, 8)

\* C4 happens: a result whose padding took two blocks, written over a
\* buffer that held the bytes of an earlier block.
PaddingWitness == pc = "done" /\ npad = 2 /\ straddle

\* C5: the known answers.  A result for the bytes of a test case of
\* tests::basic_test is the digest that test expects; the digests of the
\* empty input and of the one-byte input "a" differ.
KnownAnswers ==
  /\ test_cases[1].expected # test_cases[2].expected
  /\ pc = "done" =>
       \A k \in 1..Len(test_cases) :
         Stream = test_cases[k].input => output = test_cases[k].expected

\* C5 happens: the result for the 80-byte test case, fed by several calls.
KnownAnswersWitness ==
  pc = "done" /\ Stream = test_cases[8].input /\ straddle

\* C6: fewer than 64 bytes are pending after every operation.
PendingBelowBlock == hasher.buffer.pos < 64

\* C6 happens: 63 bytes pending after a call that also completed a block.
PendingWitness == pc = "live" /\ hasher.buffer.pos = 63 /\ straddle

\* C7, as claimed: no input() call fails, and the length counter is 8 times
\* the bytes fed in the session, modulo 2^64.
LengthCounter == pc # "panicked" /\ hasher.len = ShlW(total, 3)

\* C8: the output.  The result is 24 bytes: the words a, b, c of the state
\* after the last compression, in that order, each as its 8 bytes from the
\* least significant.
OutputSerialization ==
  pc = "done" =>
    /\ Len(output) = 24
    /\ hasher.state = StateAfter(<<A, B, C>>, blocks)
    /\ \A w \in 1..3 : \A i \in 1..8 :
         output[8 * (w - 1) + i] = hasher.state[w][i]

\* C8 happens: a result after three compressions.
OutputWitness == pc = "done" /\ Len(blocks) = 3

\* C9: one compression per completed block.  After n bytes of input in the
\* session, floor(n / 64) blocks have been compressed, the k-th being bytes
\* 64(k-1) .. 64k-1 of the session's bytes, and the state is the initial
\* state with exactly these compressed into it, in order.
CompressionPerBlock ==
  pc = "live" =>
    /\ Len(blocks) = fed \div 64
    /\ \A k \in 1..Len(blocks) :
         blocks[k] = SubSeq(Stream, 64 * (k - 1) + 1, 64 * k)
    /\ hasher.state = StateAfter(<<A, B, C>>, blocks)

\* C9 happens: after a reset() that followed some input, a block completed
\* by a second call.
CompressionWitness ==
  pc = "live" /\ resets = 1 /\ life > fed /\ straddle /\ Len(blocks) = 1

\* C10: the compressions of finalize.  One when at most 55 bytes are
\* pending, two otherwise; with those of input(), floor((n + 9 + 63) / 64)
\* for a message of n bytes; and the last 8 bytes of the last block hold the
\* bit count.
FinalizeCompressions ==
  pc = "done" =>
    /\ npad = (IF fed % 64 <= 55 THEN 1 ELSE 2)
    /\ Len(blocks) = (fed + 9 + 63) \div 64
    /\ SubSeq(blocks[Len(blocks)], 57, 64) = BytesOfNat(8 * fed, 8)

\* C10 happens: a result with 56 bytes pending after one whole block.
FinalizeWitness == pc = "done" /\ fed = BlockSize + 56 /\ npad = 2

====
